---------------------------- MODULE Spec2Model ----------------------------
(***************************************************************************)
(* A model of the TXML/TSS renderer: the markup parser (xml-parser.ts),    *)
(* the stylesheet parser (tss-parser.ts), the JSX runtime (jsx-runtime.ts),*)
(* the widget renderers (widget-renderers.ts) and the renderer that ties   *)
(* them together (renderer.ts).                                            *)
(*                                                                         *)
(* A JavaScript string is modelled as a sequence of one-character strings, *)
(* so that slicing, trimming, scanning and escaping are computed as the    *)
(* code computes them.  Positions are 0-based as in the source: the        *)
(* character at position p of s is s[p + 1].                               *)
(***************************************************************************)
EXTENDS Integers, Sequences, FiniteSets, TLC

VARIABLES
    \* --- TXMLTSSRenderer (renderer.ts) ---
    state,          \* stateManager.state : Map<string, WidgetState>
    frameNumber,    \* stateManager.frameNumber
    eventHandlers,  \* Map<string, EventHandler>: name -> behaviour of the callback
    frame,          \* what the last render() call did (binding calls, events, ...)
    returned,       \* what getState() last returned to the host
    \* --- parseTXML applied to a markup text ---
    xmlDoc,         \* the markup, as a sequence of lexical pieces
    xmlResult,      \* what parseTXML(text of xmlDoc) did
    \* --- parseTSS applied to a stylesheet text ---
    tssDoc,         \* the stylesheet, as a sequence of blocks
    tssResult,      \* what parseTSS(text of tssDoc) did
    \* --- jsx / jsxToTXML / parseTXML ---
    jsxTree,        \* a tree built with jsx()/jsxs()
    jsxResult       \* what parseTXML(jsxToTXML(jsxTree)) did

vars == <<state, frameNumber, eventHandlers, frame, returned,
          xmlDoc, xmlResult, tssDoc, tssResult, jsxTree, jsxResult>>

rendererVars == <<state, frameNumber, eventHandlers, frame, returned>>
xmlVars == <<xmlDoc, xmlResult>>
tssVars == <<tssDoc, tssResult>>
jsxVars == <<jsxTree, jsxResult>>

(***************************************************************************)
(* Characters and strings                                                  *)
(***************************************************************************)

\* /\s/ restricted to the ASCII white space characters
WhiteSpace == {" ", "\t", "\n", "\r"}

\* /[a-zA-Z]/
Letters ==
    {"a","b","c","d","e","f","g","h","i","j","k","l","m",
     "n","o","p","q","r","s","t","u","v","w","x","y","z",
     "A","B","C","D","E","F","G","H","I","J","K","L","M",
     "N","O","P","Q","R","S","T","U","V","W","X","Y","Z"}

Digits == {"0","1","2","3","4","5","6","7","8","9"}

\* /[a-zA-Z0-9_-]/
NameChars == Letters \cup Digits \cup {"_", "-"}

\* String.prototype.startsWith(expected, pos)
StartsWith(s, expected, pos) ==
    /\ pos + Len(expected) <= Len(s)
    /\ SubSeq(s, pos + 1, pos + Len(expected)) = expected

\* v evaluated once, then handed to F: the value of F(v)
Bind(v, F(_)) == CHOOSE r \in {F(x) : x \in {v}} : TRUE

\* String.prototype.slice(from, to) for 0 <= from, 0 <= to
Slice(s, from, to) == SubSeq(s, from + 1, to)

RECURSIVE TrimStart(_)
TrimStart(sIn) ==
    Bind(sIn, LAMBDA s :
    IF s # <<>> /\ Head(s) \in WhiteSpace THEN TrimStart(Tail(s)) ELSE s)

RECURSIVE TrimEnd(_)
TrimEnd(sIn) ==
    Bind(sIn, LAMBDA s :
    IF s # <<>> /\ s[Len(s)] \in WhiteSpace
    THEN TrimEnd(SubSeq(s, 1, Len(s) - 1))
    ELSE s)

\* String.prototype.trim()
Trim(s) == TrimEnd(TrimStart(s))

\* Array.prototype.join('') of a sequence of strings
RECURSIVE Concat(_)
Concat(ssIn) ==
    Bind(ssIn, LAMBDA ss :
    IF ss = <<>> THEN <<>> ELSE Head(ss) \o Concat(Tail(ss)))

\* pos++ with the line/column bookkeeping of the scanning loops
Step(s, cIn) ==
    Bind(cIn, LAMBDA c :
    IF s[c.pos + 1] = "\n"
    THEN [c EXCEPT !.pos = @ + 1, !.line = @ + 1, !.column = 1]
    ELSE [c EXCEPT !.pos = @ + 1, !.column = @ + 1])

\* pos++; column++ (the loops that do not look for line breaks)
StepCol(cIn) ==
    Bind(cIn, LAMBDA c :
    [c EXCEPT !.pos = @ + 1, !.column = @ + 1])

\* pos += n; column += n
Skip(cIn, n) ==
    Bind(cIn, LAMBDA c :
    [c EXCEPT !.pos = @ + n, !.column = @ + n])

(***************************************************************************)
(* types.ts                                                                *)
(***************************************************************************)

App == <<"A","p","p">>
HeadTag == <<"H","e","a","d">>
Body == <<"B","o","d","y">>
Window == <<"W","i","n","d","o","w">>
Text == <<"T","e","x","t">>
Button == <<"B","u","t","t","o","n">>
InputText == <<"I","n","p","u","t","T","e","x","t">>
SliderFloat == <<"S","l","i","d","e","r","F","l","o","a","t">>
Checkbox == <<"C","h","e","c","k","b","o","x">>
SameLine == <<"S","a","m","e","L","i","n","e">>
Spacing == <<"S","p","a","c","i","n","g">>
Separator == <<"S","e","p","a","r","a","t","o","r">>

SUPPORTED_TAGS ==
    {App, HeadTag, Body, Window, Text, Button, InputText,
     SliderFloat, Checkbox, SameLine, Spacing, Separator}

\* A TXMLElement {tag, attributes, children}.  attributes is the object's
\* own properties in insertion order, as <<name, value>> records; a string
\* child is the record [text |-> s].
Element(tag, attributes, children) ==
    [tag |-> tag, attributes |-> attributes, children |-> children]

TextChild(s) == [text |-> s]

\* typeof child === 'string'
IsString(child) == "text" \in DOMAIN child

\* obj[name] = value on an insertion-ordered object (or Map.set)
SetEntry(entries, name, value) ==
    IF \E i \in 1..Len(entries) : entries[i].name = name
    THEN [i \in 1..Len(entries) |->
            IF entries[i].name = name
            THEN [name |-> name, value |-> value]
            ELSE entries[i]]
    ELSE Append(entries, [name |-> name, value |-> value])

HasEntry(entries, name) == \E i \in 1..Len(entries) : entries[i].name = name

\* obj[name] (or Map.get) when the entry exists
GetEntry(entries, name) ==
    entries[CHOOSE i \in 1..Len(entries) : entries[i].name = name].value

(***************************************************************************)
(* xml-parser.ts: class TXMLParser                                         *)
(*                                                                         *)
(* The parser object's mutable fields pos, line, column are the record p;  *)
(* p.warnings is the sequence of console.warn calls made so far.           *)
(***************************************************************************)

XmlParser0 == [pos |-> 0, line |-> 1, column |-> 1, warnings |-> <<>>]

\* throw new TXMLParseError(message, this.line, this.column); a message is
\* its template and the strings interpolated into it
XmlThrow(message, args, pIn) ==
    Bind(pIn, LAMBDA p :
    [ok |-> FALSE,
     err |-> [name |-> "TXMLParseError", message |-> message, args |-> args,
              line |-> p.line, column |-> p.column],
     p |-> p])

TXMLParseError(message, p) == XmlThrow(message, <<>>, p)

XmlOk(val, pIn) ==
    Bind(pIn, LAMBDA p :
    [ok |-> TRUE, val |-> val, p |-> p])

\* private skipWhitespace()
RECURSIVE XmlSkipWhitespace(_, _)
XmlSkipWhitespace(xml, pIn) ==
    Bind(pIn, LAMBDA p :
    IF p.pos < Len(xml) /\ xml[p.pos + 1] \in WhiteSpace
    THEN XmlSkipWhitespace(xml, Step(xml, p))
    ELSE p)

\* private consume(expected): the parser after the call, unchanged when the
\* text at pos is not `expected`
XmlCanConsume(xml, p, expected) == StartsWith(xml, expected, p.pos)

XmlConsume(xml, pIn, expected) ==
    Bind(pIn, LAMBDA p :
    IF StartsWith(xml, expected, p.pos) THEN Skip(p, Len(expected)) ELSE p)

\* the scanning loop of parseTagName / parseAttributeName
RECURSIVE XmlScanName(_, _)
XmlScanName(xml, pIn) ==
    Bind(pIn, LAMBDA p :
    IF p.pos < Len(xml) /\ xml[p.pos + 1] \in NameChars
    THEN XmlScanName(xml, StepCol(p))
    ELSE p)

\* private parseTagName()
parseTagName(xml, pIn) ==
    Bind(pIn, LAMBDA p :
    Bind(XmlScanName(xml, p), LAMBDA q :
        [name |-> Slice(xml, p.pos, q.pos), p |-> q]))

\* private parseAttributeName()
parseAttributeName(xml, pIn) ==
    Bind(pIn, LAMBDA p :
    Bind(XmlScanName(xml, p), LAMBDA q :
        [name |-> Slice(xml, p.pos, q.pos), p |-> q]))

\* the scanning loop of parseAttributeValue
RECURSIVE XmlScanUntil(_, _, _)
XmlScanUntil(xml, pIn, stop) ==
    Bind(pIn, LAMBDA p :
    IF p.pos < Len(xml) /\ xml[p.pos + 1] # stop
    THEN XmlScanUntil(xml, Step(xml, p), stop)
    ELSE p)

\* private parseAttributeValue()
parseAttributeValue(xml, pIn) ==
    Bind(pIn, LAMBDA p :
    LET dq == <<"\"">>
        sq == <<"'">>
        quote == IF XmlCanConsume(xml, p, dq) THEN dq
                 ELSE IF XmlCanConsume(xml, p, sq) THEN sq
                 ELSE <<>>
    IN  IF quote = <<>>
        THEN TXMLParseError("Expected quoted attribute value", p)
        ELSE Bind(XmlConsume(xml, p, quote), LAMBDA p1 :
             Bind(XmlScanUntil(xml, p1, quote[1]), LAMBDA p2 :
                 IF ~XmlCanConsume(xml, p2, quote)
                 THEN TXMLParseError("Unclosed attribute value", p2)
                 ELSE Bind(XmlConsume(xml, p2, quote), LAMBDA p3 :
                          XmlOk(Slice(xml, p1.pos, p3.pos - 1), p3)))))

\* the while loop of parseAttributes
RECURSIVE XmlAttributesLoop(_, _, _)
XmlAttributesLoop(xml, pIn, attributes) ==
    Bind(pIn, LAMBDA p :
    IF p.pos < Len(xml) /\ xml[p.pos + 1] # ">" /\ xml[p.pos + 1] # "/"
    THEN Bind(parseAttributeName(xml, p), LAMBDA n :
             IF ~XmlCanConsume(xml, n.p, <<"=">>)
             THEN TXMLParseError("Expected = after attribute name", n.p)
             ELSE Bind(parseAttributeValue(xml, XmlConsume(xml, n.p, <<"=">>)), LAMBDA v :
                      IF ~v.ok THEN v
                      ELSE XmlAttributesLoop(xml, XmlSkipWhitespace(xml, v.p),
                                             SetEntry(attributes, n.name, v.val))))
    ELSE XmlOk(attributes, p))

\* private parseAttributes()
parseAttributes(xml, pIn) ==
    Bind(pIn, LAMBDA p :
    XmlAttributesLoop(xml, XmlSkipWhitespace(xml, p), <<>>))

\* private parseText()
parseText(xml, pIn) ==
    Bind(pIn, LAMBDA p :
    Bind(XmlScanUntil(xml, p, "<"), LAMBDA q :
        [text |-> Slice(xml, p.pos, q.pos), p |-> q]))

\* the search loop of skipComment
RECURSIVE XmlCommentLoop(_, _)
XmlCommentLoop(xml, pIn) ==
    Bind(pIn, LAMBDA p :
    IF p.pos < Len(xml)
    THEN IF StartsWith(xml, <<"-","-",">">>, p.pos)
         THEN Skip(p, 3)
         ELSE XmlCommentLoop(xml, Step(xml, p))
    ELSE p)

\* A variant of skipComment that skips through the last --> of the text; the
\* comment property below tells it from skipComment.
RECURSIVE XmlCommentLoopLast(_, _)
XmlCommentLoopLast(xml, pIn) ==
    Bind(XmlCommentLoop(xml, pIn), LAMBDA q :
        IF \E n \in q.pos..(Len(xml) - 3) : StartsWith(xml, <<"-","-",">">>, n)
        THEN XmlCommentLoopLast(xml, q)
        ELSE q)

skipCommentThroughLast(xml, pIn) ==
    Bind(pIn, LAMBDA p :
    XmlCommentLoopLast(xml, Skip(p, 4)))

\* private skipComment()
skipComment(xml, pIn) ==
    Bind(pIn, LAMBDA p :
    XmlCommentLoop(xml, Skip(p, 4)))

RECURSIVE parseElement(_, _)
RECURSIVE XmlChildrenLoop(_, _, _)

\* the while loop of parseChildren
XmlChildrenLoop(xml, p0In, children) ==
    Bind(p0In, LAMBDA p0 :
    IF p0.pos < Len(xml)
    THEN Bind(XmlSkipWhitespace(xml, p0), LAMBDA p :
             IF StartsWith(xml, <<"<","/">>, p.pos)
             THEN XmlOk(children, p)
             ELSE IF p.pos < Len(xml) /\ xml[p.pos + 1] = "<"
             THEN IF StartsWith(xml, <<"<","!","-","-">>, p.pos)
                  THEN XmlChildrenLoop(xml, skipComment(xml, p), children)
                  ELSE Bind(parseElement(xml, p), LAMBDA e :
                           IF ~e.ok THEN e
                           ELSE XmlChildrenLoop(xml, e.p, Append(children, e.val)))
             ELSE Bind(parseText(xml, p), LAMBDA t :
                      XmlChildrenLoop(xml, t.p,
                          IF Trim(t.text) # <<>>
                          THEN Append(children, TextChild(t.text))
                          ELSE children)))
    ELSE XmlOk(children, p0))

\* private parseChildren(_parentTag)
parseChildren(xml, pIn) ==
    Bind(pIn, LAMBDA p :
    XmlChildrenLoop(xml, p, <<>>))

\* A variant of parseElement that accepts whatever name the closing tag
\* carries; the closing-tag property below tells it from parseElement.
parseElementAnyClosingTag(xml, p0In) ==
    Bind(p0In, LAMBDA p0 :
    IF ~XmlCanConsume(xml, p0, <<"<">>)
    THEN TXMLParseError("Expected <", p0)
    ELSE
    Bind(parseTagName(xml, XmlConsume(xml, p0, <<"<">>)), LAMBDA t :
    Bind(parseAttributes(xml, t.p), LAMBDA a :
        IF ~a.ok THEN a
        ELSE IF XmlCanConsume(xml, a.p, <<"/",">">>)
        THEN XmlOk(Element(t.name, a.val, <<>>), XmlConsume(xml, a.p, <<"/",">">>))
        ELSE IF ~XmlCanConsume(xml, a.p, <<">">>)
        THEN TXMLParseError("Expected > or />", a.p)
        ELSE
        Bind(parseChildren(xml, XmlConsume(xml, a.p, <<">">>)), LAMBDA c :
            IF ~c.ok THEN c
            ELSE IF ~XmlCanConsume(xml, c.p, <<"<","/">>)
            THEN TXMLParseError("Expected closing tag", c.p)
            ELSE
            Bind(parseTagName(xml, XmlConsume(xml, c.p, <<"<","/">>)), LAMBDA ct :
                IF ~XmlCanConsume(xml, ct.p, <<">">>)
                THEN TXMLParseError("Expected > in closing tag", ct.p)
                ELSE XmlOk(Element(t.name, a.val, c.val), XmlConsume(xml, ct.p, <<">">>)))))))

\* private parseElement()
parseElement(xml, p0In) ==
    Bind(p0In, LAMBDA p0 :
    IF ~XmlCanConsume(xml, p0, <<"<">>)
    THEN TXMLParseError("Expected <", p0)
    ELSE
    Bind(parseTagName(xml, XmlConsume(xml, p0, <<"<">>)), LAMBDA t :
    LET tag == t.name
        p1 == IF tag \notin SUPPORTED_TAGS
              THEN [t.p EXCEPT !.warnings = Append(@, <<"Unknown tag", tag>>)]
              ELSE t.p
    IN  Bind(parseAttributes(xml, p1), LAMBDA a :
        IF ~a.ok THEN a
        ELSE IF XmlCanConsume(xml, a.p, <<"/",">">>)
        THEN XmlOk(Element(tag, a.val, <<>>), XmlConsume(xml, a.p, <<"/",">">>))
        ELSE IF ~XmlCanConsume(xml, a.p, <<">">>)
        THEN TXMLParseError("Expected > or />", a.p)
        ELSE
        Bind(parseChildren(xml, XmlConsume(xml, a.p, <<">">>)), LAMBDA c :
            IF ~c.ok THEN c
            ELSE IF ~XmlCanConsume(xml, c.p, <<"<","/">>)
            THEN TXMLParseError("Expected closing tag", c.p)
            ELSE
            Bind(parseTagName(xml, XmlConsume(xml, c.p, <<"<","/">>)), LAMBDA ct :
            LET closingTag == ct.name
            IN  IF closingTag # tag
                THEN XmlThrow("Mismatched closing tag: expected </${tag}> but found </${closingTag}>",
                              <<tag, closingTag>>, ct.p)
                ELSE IF ~XmlCanConsume(xml, ct.p, <<">">>)
                THEN TXMLParseError("Expected > in closing tag", ct.p)
                ELSE XmlOk(Element(tag, a.val, c.val), XmlConsume(xml, ct.p, <<">">>)))))))

\* A variant of parse() that returns the root element whatever its tag; the
\* root property below tells it from parse().
TXMLParser_parseAnyRoot(xml0) ==
    Bind(Trim(xml0), LAMBDA xml :
    Bind(XmlSkipWhitespace(xml, XmlParser0), LAMBDA p0 :
        IF p0.pos >= Len(xml) \/ xml[p0.pos + 1] # "<"
        THEN TXMLParseError("Expected XML document to start with <", p0)
        ELSE
        Bind(parseElement(xml, p0), LAMBDA root :
            IF ~root.ok THEN root
            ELSE Bind(XmlSkipWhitespace(xml, root.p), LAMBDA p1 :
                     IF p1.pos < Len(xml)
                     THEN TXMLParseError("Unexpected content after root element", p1)
                     ELSE XmlOk(root.val, p1)))))

\* parse()
TXMLParser_parse(xml0) ==
    Bind(Trim(xml0), LAMBDA xml :
    Bind(XmlSkipWhitespace(xml, XmlParser0), LAMBDA p0 :
        IF p0.pos >= Len(xml) \/ xml[p0.pos + 1] # "<"
        THEN TXMLParseError("Expected XML document to start with <", p0)
        ELSE
        Bind(parseElement(xml, p0), LAMBDA root :
            IF ~root.ok THEN root
            ELSE IF root.val.tag # App
            THEN TXMLParseError("Root element must be <App>", root.p)
            ELSE Bind(XmlSkipWhitespace(xml, root.p), LAMBDA p1 :
                     IF p1.pos < Len(xml)
                     THEN TXMLParseError("Unexpected content after root element", p1)
                     ELSE XmlOk(root.val, p1)))))

\* export function parseTXML(xml)
parseTXML(xml) == TXMLParser_parse(xml)

(***************************************************************************)
(* tss-parser.ts: class TSSParser                                          *)
(*                                                                         *)
(* As for the markup parser, p holds pos, line, column and the warnings.   *)
(* A stylesheet is [variables, rules]: variables is the Map's entries in   *)
(* insertion order, a rule is [selector, properties, specificity].         *)
(***************************************************************************)

SUPPORTED_PROPERTIES ==
    {<<"c","o","l","o","r">>,
     <<"b","a","c","k","g","r","o","u","n","d","-","c","o","l","o","r">>,
     <<"w","i","d","t","h">>, <<"h","e","i","g","h","t">>,
     <<"p","a","d","d","i","n","g">>, <<"m","a","r","g","i","n">>,
     <<"f","o","n","t","-","s","i","z","e">>,
     <<"b","o","r","d","e","r","-","r","a","d","i","u","s">>,
     <<"o","p","a","c","i","t","y">>}

TssParser0 == [pos |-> 0, line |-> 1, column |-> 1, warnings |-> <<>>]

\* throw new TSSParseError(message, this.line, this.column)
TSSParseError(message, pIn) ==
    Bind(pIn, LAMBDA p :
    [ok |-> FALSE,
     err |-> [name |-> "TSSParseError", message |-> message,
              line |-> p.line, column |-> p.column],
     p |-> p])

\* the call never returns: a loop iteration that changes nothing is repeated
\* for ever
TssDiverges(pIn) ==
    Bind(pIn, LAMBDA p :
    [ok |-> FALSE,
     err |-> [name |-> "(no return)", message |-> "the parse loop makes no progress",
              line |-> p.line, column |-> p.column],
     p |-> p])

TssOk(val, pIn) ==
    Bind(pIn, LAMBDA p :
    [ok |-> TRUE, val |-> val, p |-> p])

\* private skipWhitespace()
RECURSIVE TssSkipWhitespace(_, _)
TssSkipWhitespace(tss, pIn) ==
    Bind(pIn, LAMBDA p :
    IF p.pos < Len(tss) /\ tss[p.pos + 1] \in WhiteSpace
    THEN TssSkipWhitespace(tss, Step(tss, p))
    ELSE p)

\* private consume(expected)
TssCanConsume(tss, p, expected) == StartsWith(tss, expected, p.pos)

TssConsume(tss, pIn, expected) ==
    Bind(pIn, LAMBDA p :
    IF StartsWith(tss, expected, p.pos) THEN Skip(p, Len(expected)) ELSE p)

\* this.tss[this.pos] === ch (undefined past the end)
TssAt(tss, pIn, ch) ==
    Bind(pIn, LAMBDA p :
    p.pos < Len(tss) /\ tss[p.pos + 1] = ch)

\* a loop `while (pos < length && tss[pos] not in stops) { pos++; column++ }`
\* leaves pos at the first character from pos on that is in stops, or at the
\* end of the text, having added to column what it added to pos
TssScanUntil(tss, pIn, stops) ==
    Bind(pIn, LAMBDA p :
    Bind(CHOOSE n \in p.pos..Len(tss) :
             /\ n = Len(tss) \/ tss[n + 1] \in stops
             /\ \A m \in p.pos..(n - 1) : tss[m + 1] \notin stops,
         LAMBDA n : Skip(p, n - p.pos)))

\* the same loop with the line/column bookkeeping
RECURSIVE TssScanLinesUntil(_, _, _)
TssScanLinesUntil(tss, pIn, stops) ==
    Bind(pIn, LAMBDA p :
    IF p.pos < Len(tss) /\ tss[p.pos + 1] \notin stops
    THEN TssScanLinesUntil(tss, Step(tss, p), stops)
    ELSE p)

\* private parseIdentifier()
RECURSIVE TssScanName(_, _)
TssScanName(tss, pIn) ==
    Bind(pIn, LAMBDA p :
    IF p.pos < Len(tss) /\ tss[p.pos + 1] \in NameChars
    THEN TssScanName(tss, StepCol(p))
    ELSE p)

parseIdentifier(tss, pIn) ==
    Bind(pIn, LAMBDA p :
    Bind(TssScanName(tss, p), LAMBDA q :
        [name |-> Slice(tss, p.pos, q.pos), p |-> q]))

\* private parseValue()
parseValue(tss, pIn) ==
    Bind(pIn, LAMBDA p :
    IF TssAt(tss, p, "\"") \/ TssAt(tss, p, "'")
    THEN LET quote == tss[p.pos + 1]
         IN  Bind(TssScanLinesUntil(tss, StepCol(p), {quote}), LAMBDA p1 :
             Bind(IF p1.pos < Len(tss) THEN StepCol(p1) ELSE p1, LAMBDA p2 :
                 [value |-> Slice(tss, p.pos + 1, p2.pos - 1), p |-> p2]))
    ELSE Bind(TssScanUntil(tss, p, {";", "}"} \cup WhiteSpace), LAMBDA q :
             [value |-> Trim(Slice(tss, p.pos, q.pos)), p |-> q]))

\* A variant of parseVariable that keeps the leading -- in the variable's name;
\* the :root property below tells it from parseVariable.
parseVariableKeepingDashes(tss, pIn) ==
    Bind(pIn, LAMBDA p :
    IF ~TssCanConsume(tss, p, <<"-","-">>)
    THEN TSSParseError("Expected -- for CSS variable", p)
    ELSE
    Bind(parseIdentifier(tss, TssConsume(tss, p, <<"-","-">>)), LAMBDA n :
        IF ~TssCanConsume(tss, n.p, <<":">>)
        THEN TSSParseError("Expected : after variable name", n.p)
        ELSE
        Bind(parseValue(tss, TssSkipWhitespace(tss, TssConsume(tss, n.p, <<":">>))), LAMBDA v :
            IF ~TssCanConsume(tss, v.p, <<";">>)
            THEN TSSParseError("Expected ; after variable value", v.p)
            ELSE TssOk([name |-> <<"-","-">> \o n.name, value |-> v.value],
                       TssConsume(tss, v.p, <<";">>)))))

\* private parseVariable()
parseVariable(tss, pIn) ==
    Bind(pIn, LAMBDA p :
    IF ~TssCanConsume(tss, p, <<"-","-">>)
    THEN TSSParseError("Expected -- for CSS variable", p)
    ELSE
    Bind(parseIdentifier(tss, TssConsume(tss, p, <<"-","-">>)), LAMBDA n :
        IF ~TssCanConsume(tss, n.p, <<":">>)
        THEN TSSParseError("Expected : after variable name", n.p)
        ELSE
        Bind(parseValue(tss, TssSkipWhitespace(tss, TssConsume(tss, n.p, <<":">>))), LAMBDA v :
            IF ~TssCanConsume(tss, v.p, <<";">>)
            THEN TSSParseError("Expected ; after variable value", v.p)
            ELSE TssOk([name |-> n.name, value |-> v.value],
                       TssConsume(tss, v.p, <<";">>)))))

\* the while loop of parseRootVariables
RECURSIVE TssRootLoop(_, _, _)
TssRootLoop(tss, p0In, variables) ==
    Bind(p0In, LAMBDA p0 :
    IF p0.pos < Len(tss) /\ tss[p0.pos + 1] # "}"
    THEN Bind(TssSkipWhitespace(tss, p0), LAMBDA p :
             IF TssAt(tss, p, "}")
             THEN TssOk(variables, p)
             ELSE IF StartsWith(tss, <<"-","-">>, p.pos)
             THEN Bind(parseVariable(tss, p), LAMBDA variable :
                      IF ~variable.ok THEN variable
                      ELSE TssRootLoop(tss, TssSkipWhitespace(tss, variable.p),
                               SetEntry(variables, variable.val.name, variable.val.value)))
             ELSE \* Skip other properties in :root
                  LET p1 == parseIdentifier(tss, p).p
                      p2 == TssConsume(tss, p1, <<":">>)
                      p3 == parseValue(tss, p2).p
                      p4 == TssConsume(tss, p3, <<";">>)
                  IN  TssRootLoop(tss, TssSkipWhitespace(tss, p4), variables))
    ELSE TssOk(variables, p0))

\* private parseRootVariables(variables)
parseRootVariables(tss, pIn, variables) ==
    Bind(pIn, LAMBDA p :
    Bind(TssSkipWhitespace(tss, Skip(p, 5)), LAMBDA p1 :
        IF ~TssCanConsume(tss, p1, <<"{">>)
        THEN TSSParseError("Expected { after :root", p1)
        ELSE
        Bind(TssRootLoop(tss, TssConsume(tss, p1, <<"{">>), variables), LAMBDA r :
            IF ~r.ok THEN r
            ELSE IF ~TssCanConsume(tss, r.p, <<"}">>)
            THEN TSSParseError("Expected } after :root block", r.p)
            ELSE TssOk(r.val, TssConsume(tss, r.p, <<"}">>)))))

\* private parseSelector()
parseSelector(tss, pIn) ==
    Bind(pIn, LAMBDA p :
    Bind(TssScanUntil(tss, p, {"{"}), LAMBDA q :
        [selector |-> Trim(Slice(tss, p.pos, q.pos)), p |-> q]))

\* the while loop of parseProperties
RECURSIVE TssPropertiesLoop(_, _, _)

\* A variant of the loop that takes the ; after a value when there is one and
\* goes on without it otherwise; the declaration property below tells it from
\* the loop of parseProperties.
TssPropertiesLoopOptionalSemicolon(tss, p0In, properties) ==
    Bind(p0In, LAMBDA p0 :
    IF p0.pos < Len(tss) /\ tss[p0.pos + 1] # "}"
    THEN Bind(TssSkipWhitespace(tss, p0), LAMBDA p :
             IF TssAt(tss, p, "}")
             THEN TssOk(properties, p)
             ELSE
             Bind(parseIdentifier(tss, p), LAMBDA n :
                 IF ~TssCanConsume(tss, n.p, <<":">>)
                 THEN TSSParseError("Expected : after property name", n.p)
                 ELSE
                 Bind(parseValue(tss, TssSkipWhitespace(tss, TssConsume(tss, n.p, <<":">>))), LAMBDA v :
                     TssPropertiesLoop(tss,
                         TssSkipWhitespace(tss, TssConsume(tss, v.p, <<";">>)),
                         SetEntry(properties, n.name, v.value)))))
    ELSE TssOk(properties, p0))

TssPropertiesLoop(tss, p0In, properties) ==
    Bind(p0In, LAMBDA p0 :
    IF p0.pos < Len(tss) /\ tss[p0.pos + 1] # "}"
    THEN Bind(TssSkipWhitespace(tss, p0), LAMBDA p :
             IF TssAt(tss, p, "}")
             THEN TssOk(properties, p)
             ELSE
             Bind(parseIdentifier(tss, p), LAMBDA n :
                 IF ~TssCanConsume(tss, n.p, <<":">>)
                 THEN TSSParseError("Expected : after property name", n.p)
                 ELSE
                 Bind(parseValue(tss, TssSkipWhitespace(tss, TssConsume(tss, n.p, <<":">>))), LAMBDA v :
                 Bind(IF n.name \notin SUPPORTED_PROPERTIES
                      THEN [v.p EXCEPT !.warnings = Append(@, <<"Unknown property", n.name>>)]
                      ELSE v.p, LAMBDA p1 :
                     IF ~TssCanConsume(tss, p1, <<";">>)
                     THEN TSSParseError("Expected ; after property value", p1)
                     ELSE TssPropertiesLoop(tss,
                              TssSkipWhitespace(tss, TssConsume(tss, p1, <<";">>)),
                              SetEntry(properties, n.name, v.value))))))
    ELSE TssOk(properties, p0))

\* private parseProperties()
parseProperties(tss, p) == TssPropertiesLoop(tss, p, <<>>)

\* selector.split(/\s+/)
SplitWhiteSpace(s) ==
    LET ws(i) == s[i] \in WhiteSpace
        starts == {i \in 1..Len(s) : ws(i) /\ (i = 1 \/ ~ws(i - 1))}
        ends == {i \in 1..Len(s) : ws(i) /\ (i = Len(s) \/ ~ws(i + 1))}
        nth(S, k) == CHOOSE x \in S : Cardinality({y \in S : y < x}) = k - 1
        n == Cardinality(starts)
    IN  [k \in 1..(n + 1) |->
            SubSeq(s, IF k = 1 THEN 1 ELSE nth(ends, k - 1) + 1,
                      IF k = n + 1 THEN Len(s) ELSE nth(starts, k) - 1)]

\* A variant of the loop body that counts a class selector like a tag name;
\* the specificity property below tells it from the loop body.
PartSpecificityClassAsTag(part) ==
    IF part # <<>> /\ part[1] = "#" THEN 100
    ELSE IF part # <<>> /\ (part[1] = "." \/ part[1] \in Letters) THEN 1
    ELSE 0

\* the body of the for loop of calculateSpecificity
PartSpecificity(part) ==
    IF part # <<>> /\ part[1] = "#" THEN 100
    ELSE IF part # <<>> /\ part[1] = "." THEN 10
    ELSE IF part # <<>> /\ part[1] \in Letters THEN 1
    ELSE 0

RECURSIVE SumSpecificity(_)
SumSpecificity(parts) ==
    IF parts = <<>> THEN 0
    ELSE PartSpecificity(Head(parts)) + SumSpecificity(Tail(parts))

\* private calculateSpecificity(selector)
calculateSpecificity(selector) == SumSpecificity(SplitWhiteSpace(selector))

\* private parseRule(): val is <<>> for null, <<rule>> for a rule
parseRule(tss, pIn) ==
    Bind(pIn, LAMBDA p :
    Bind(parseSelector(tss, p), LAMBDA s :
        IF s.selector = <<>> THEN TssOk(<<>>, s.p)
        ELSE IF ~TssCanConsume(tss, s.p, <<"{">>)
        THEN TSSParseError("Expected { after selector", s.p)
        ELSE
        Bind(parseProperties(tss, TssConsume(tss, s.p, <<"{">>)), LAMBDA props :
            IF ~props.ok THEN props
            ELSE IF ~TssCanConsume(tss, props.p, <<"}">>)
            THEN TSSParseError("Expected } after properties", props.p)
            ELSE TssOk(<<[selector |-> s.selector, properties |-> props.val,
                          specificity |-> calculateSpecificity(s.selector)]>>,
                       TssConsume(tss, props.p, <<"}">>)))))

\* the block-skipping loop of parseAtRule
RECURSIVE TssSkipBlock(_, _, _)
TssSkipBlock(tss, pIn, depth) ==
    Bind(pIn, LAMBDA p :
    IF p.pos < Len(tss) /\ depth > 0
    THEN TssSkipBlock(tss, Step(tss, p),
             IF tss[p.pos + 1] = "{" THEN depth + 1
             ELSE IF tss[p.pos + 1] = "}" THEN depth - 1
             ELSE depth)
    ELSE p)

\* parseAtRule with a block that ends at the first closing brace
parseAtRuleToFirstBrace(tss, pIn) ==
    Bind(pIn, LAMBDA p :
    Bind(TssScanUntil(tss, p, {";", "{"}), LAMBDA p1 :
        IF TssAt(tss, p1, "{")
        THEN Bind(TssScanLinesUntil(tss, StepCol(p1), {"}"}), LAMBDA p2 :
                 IF p2.pos < Len(tss) THEN Step(tss, p2) ELSE p2)
        ELSE Bind(TssScanUntil(tss, p1, {";"}), LAMBDA p2 :
                 IF p2.pos < Len(tss) THEN StepCol(p2) ELSE p2)))

\* private parseAtRule()
parseAtRule(tss, pIn) ==
    Bind(pIn, LAMBDA p :
    Bind(TssScanUntil(tss, p, {";", "{"}), LAMBDA p1 :
        IF TssAt(tss, p1, "{")
        THEN TssSkipBlock(tss, StepCol(p1), 1)
        ELSE Bind(TssScanUntil(tss, p1, {";"}), LAMBDA p2 :
                 IF p2.pos < Len(tss) THEN StepCol(p2) ELSE p2)))

\* the while loop of parse()
RECURSIVE TssParseLoop(_, _, _, _)
TssParseLoop(tss, pIn, variables, rules) ==
    Bind(pIn, LAMBDA p :
    IF p.pos < Len(tss)
    THEN IF StartsWith(tss, <<":","r","o","o","t">>, p.pos)
         THEN Bind(parseRootVariables(tss, p, variables), LAMBDA r :
                  IF ~r.ok THEN r
                  ELSE TssParseLoop(tss, TssSkipWhitespace(tss, r.p), r.val, rules))
         ELSE IF tss[p.pos + 1] = "@"
         THEN TssParseLoop(tss, TssSkipWhitespace(tss, parseAtRule(tss, p)),
                           variables, rules)
         ELSE Bind(parseRule(tss, p), LAMBDA rule :
                  IF ~rule.ok THEN rule
                  ELSE Bind(TssSkipWhitespace(tss, rule.p), LAMBDA q :
                           IF rule.val = <<>> /\ q = p
                           THEN TssDiverges(p)
                           ELSE TssParseLoop(tss, q, variables, rules \o rule.val)))
    ELSE TssOk([variables |-> variables, rules |-> rules], p))

\* parse()
TSSParser_parse(tssIn) ==
    Bind(tssIn, LAMBDA tss :
    TssParseLoop(tss, TssSkipWhitespace(tss, TssParser0), <<>>, <<>>))

\* export function parseTSS(tss)
parseTSS(tss) == TSSParser_parse(tss)

(***************************************************************************)
(* jsx-runtime.ts                                                          *)
(*                                                                         *)
(* props is Null or [entries, children]: entries are the own properties    *)
(* other than children, in insertion order; children (and the third        *)
(* parameter, key) is Undefined, Null, [array |-> items] or a child.       *)
(***************************************************************************)

Null == [null |-> TRUE]
Undefined == [undefined |-> TRUE]
IsArray(v) == "array" \in DOMAIN v
Nullish(v) == v = Null \/ v = Undefined

\* array.filter(child => child !== null && child !== undefined)
RECURSIVE FilterNullish(_)
FilterNullish(items) ==
    IF items = <<>> THEN <<>>
    ELSE IF Nullish(Head(items)) THEN FilterNullish(Tail(items))
    ELSE <<Head(items)>> \o FilterNullish(Tail(items))

\* the attribute loop of jsx(): every prop but children and key, as a string
RECURSIVE JsxAttributes(_, _)
JsxAttributes(entries, attributes) ==
    IF entries = <<>> THEN attributes
    ELSE IF Head(entries).name = <<"k","e","y">>
    THEN JsxAttributes(Tail(entries), attributes)
    ELSE JsxAttributes(Tail(entries),
                       SetEntry(attributes, Head(entries).name, Head(entries).value))

\* children.push(...) of either source of children
JsxChildrenOf(v) ==
    IF IsArray(v) THEN FilterNullish(v.array)
    ELSE IF Nullish(v) THEN <<>>
    ELSE <<v>>

\* export function jsx(type, props, key)
jsx(type, props, key) ==
    LET children ==
            IF props # Null /\ props.children # Undefined
            THEN JsxChildrenOf(props.children)
            ELSE IF key # Undefined THEN JsxChildrenOf(key)
            ELSE <<>>
        attributes == IF props # Null THEN JsxAttributes(props.entries, <<>>) ELSE <<>>
    IN  Element(type, attributes, children)

\* export function jsxs(type, props, _key)
jsxs(type, props, key) == jsx(type, props, key)

\* .replace(/&/g, '&amp;').replace(/"/g, '&quot;').replace(/'/g, '&#39;')
\* .replace(/</g, '&lt;').replace(/>/g, '&gt;')
ReplaceAll(sIn, ch, by) ==
    Bind(sIn, LAMBDA s :
    Concat([i \in 1..Len(s) |-> IF s[i] = ch THEN by ELSE <<s[i]>>]))

EscapeAttribute(valueIn) ==
    Bind(valueIn, LAMBDA value :
    LET s1 == ReplaceAll(value, "&", <<"&","a","m","p",";">>)
        s2 == ReplaceAll(s1, "\"", <<"&","q","u","o","t",";">>)
        s3 == ReplaceAll(s2, "'", <<"&","#","3","9",";">>)
        s4 == ReplaceAll(s3, "<", <<"&","l","t",";">>)
    IN  ReplaceAll(s4, ">", <<"&","g","t",";">>))

\* Object.entries(attributes).map(...).join(' ')
RECURSIVE JsxAttrsStr(_)
JsxAttrsStr(attributes) ==
    IF attributes = <<>> THEN <<>>
    ELSE Head(attributes).name \o <<"=", "\"">> \o EscapeAttribute(Head(attributes).value)
         \o <<"\"">>
         \o (IF Tail(attributes) = <<>> THEN <<>> ELSE <<" ">> \o JsxAttrsStr(Tail(attributes)))

\* export function jsxToTXML(element)
RECURSIVE jsxToTXML(_)
jsxToTXML(elementIn) ==
    Bind(elementIn, LAMBDA element :
    IF IsString(element) THEN element.text
    ELSE
    LET attrsStr == JsxAttrsStr(element.attributes)
        childrenStr == Concat([i \in 1..Len(element.children) |->
                                  jsxToTXML(element.children[i])])
        open == <<"<">> \o element.tag
                \o (IF attrsStr # <<>> THEN <<" ">> \o attrsStr ELSE <<>>)
    IN  IF Len(element.children) = 0
        THEN open \o <<" ", "/", ">">>
        ELSE open \o <<">">> \o childrenStr \o <<"<", "/">> \o element.tag \o <<">">>)

(***************************************************************************)
(* style-engine.ts (class StyleEngine): the cascade resolver.  A computed  *)
(* style is a sequence of [name, value] entries whose value is a typed     *)
(* value [type, value].                                                    *)
(***************************************************************************)

COLOR_PROPERTIES ==
    {<<"c","o","l","o","r">>,
     <<"b","a","c","k","g","r","o","u","n","d","-","c","o","l","o","r">>}

NUMERIC_PROPERTIES == SUPPORTED_PROPERTIES \ COLOR_PROPERTIES

HexDigits == Digits \cup {"a","b","c","d","e","f","A","B","C","D","E","F"}

\* element.attributes[name] !== undefined, and its value then
HasAttr(element, name) == HasEntry(element.attributes, name)

Attr(element, name) == GetEntry(element.attributes, name)

\* a simple selector without its pseudo-class suffix
RECURSIVE StripPseudo(_)
StripPseudo(part) ==
    IF part = <<>> \/ Head(part) = ":" THEN <<>>
    ELSE <<Head(part)>> \o StripPseudo(Tail(part))

\* a simple selector against the element itself
SimpleMatchesElement(part, element) ==
    LET sel == StripPseudo(part)
    IN  IF sel = <<>> THEN FALSE
        ELSE IF sel[1] = "#"
        THEN /\ HasAttr(element, <<"i","d">>)
             /\ Attr(element, <<"i","d">>) = Tail(sel)
        ELSE IF sel[1] = "."
        THEN /\ HasAttr(element, <<"c","l","a","s","s">>)
             /\ \E i \in 1..Len(SplitWhiteSpace(Attr(element, <<"c","l","a","s","s">>))) :
                    SplitWhiteSpace(Attr(element, <<"c","l","a","s","s">>))[i] = Tail(sel)
        ELSE sel = element.tag

\* the leading simple selectors against the ancestor tags, in order
RECURSIVE AncestorsMatch(_, _)
AncestorsMatch(parts, path) ==
    IF parts = <<>> THEN TRUE
    ELSE IF path = <<>> THEN FALSE
    ELSE IF StripPseudo(Head(parts)) = Head(path)
    THEN AncestorsMatch(Tail(parts), Tail(path))
    ELSE AncestorsMatch(parts, Tail(path))

\* step 1: does the rule apply to the element under this ancestor path
RuleApplies(rule, element, ancestorPath) ==
    LET parts == SplitWhiteSpace(rule.selector)
    IN  /\ SimpleMatchesElement(parts[Len(parts)], element)
        /\ AncestorsMatch(SubSeq(parts, 1, Len(parts) - 1), ancestorPath)

\* steps 2 and 3: the applicable rules merged by (specificity, source order)
RECURSIVE MergeEntries(_, _)
MergeEntries(into, entries) ==
    IF entries = <<>> THEN into
    ELSE MergeEntries(SetEntry(into, Head(entries).name, Head(entries).value),
                      Tail(entries))

RECURSIVE MergeRules(_, _, _, _, _)
MergeRules(rules, element, ancestorPath, specificities, merged) ==
    IF specificities = {} THEN merged
    ELSE LET low == CHOOSE x \in specificities : \A y \in specificities : x <= y
             atLow == SelectSeq(rules, LAMBDA r : r.specificity = low
                                                  /\ RuleApplies(r, element, ancestorPath))
         IN  MergeRules(rules, element, ancestorPath, specificities \ {low},
                        MergeEntries(merged,
                            Concat([i \in 1..Len(atLow) |-> atLow[i].properties])))

\* step 4: var(--name) against the stylesheet's variables
IsVarRef(value) ==
    /\ Len(value) >= 7
    /\ SubSeq(value, 1, 6) = <<"v","a","r","(","-","-">>
    /\ value[Len(value)] = ")"

ResolveVar(value, variables) ==
    IF IsVarRef(value)
    THEN LET name == SubSeq(value, 7, Len(value) - 1)
         IN  IF HasEntry(variables, name)
             THEN [resolved |-> TRUE, value |-> GetEntry(variables, name)]
             ELSE [resolved |-> FALSE, value |-> value]
    ELSE [resolved |-> TRUE, value |-> value]

\* step 5: coercion
HexValue(ch) ==
    CASE ch \in Digits -> CHOOSE n \in 0..9 : ToString(n) = ch
      [] ch \in {"a","A"} -> 10 [] ch \in {"b","B"} -> 11 [] ch \in {"c","C"} -> 12
      [] ch \in {"d","D"} -> 13 [] ch \in {"e","E"} -> 14 [] ch \in {"f","F"} -> 15

RECURSIVE HexNumber(_, _)
HexNumber(digits, acc) ==
    IF digits = <<>> THEN acc
    ELSE HexNumber(Tail(digits), acc * 16 + HexValue(Head(digits)))

RECURSIVE LeadingDigits(_)
LeadingDigits(s) ==
    IF s # <<>> /\ Head(s) \in Digits
    THEN <<Head(s)>> \o LeadingDigits(Tail(s))
    ELSE <<>>

RECURSIVE DecimalNumber(_, _)
DecimalNumber(digits, acc) ==
    IF digits = <<>> THEN acc
    ELSE DecimalNumber(Tail(digits), acc * 10 + HexValue(Head(digits)))

\* a typed value, or Undefined when the coercion fails
Coerce(name, value) ==
    IF name \in COLOR_PROPERTIES
    THEN IF /\ Len(value) \in {7, 9}
            /\ value[1] = "#"
            /\ \A i \in 2..Len(value) : value[i] \in HexDigits
         THEN [type |-> "color",
               value |-> [rgb |-> HexNumber(SubSeq(value, 2, 7), 0),
                          alpha |-> IF Len(value) = 9
                                    THEN HexNumber(SubSeq(value, 8, 9), 0)
                                    ELSE 255]]
         ELSE Undefined
    ELSE IF name \in NUMERIC_PROPERTIES
    THEN IF LeadingDigits(value) # <<>>
         THEN [type |-> "number", value |-> DecimalNumber(LeadingDigits(value), 0)]
         ELSE Undefined
    ELSE [type |-> "string", value |-> value]

RECURSIVE ResolveAndCoerce(_, _)
ResolveAndCoerce(entries, variables) ==
    IF entries = <<>> THEN <<>>
    ELSE LET e == Head(entries)
             raw == ResolveVar(e.value, variables)
             typed == IF ~raw.resolved THEN Undefined ELSE Coerce(e.name, raw.value)
         IN  (IF typed = Undefined THEN <<>> ELSE <<[name |-> e.name, value |-> typed]>>)
             \o ResolveAndCoerce(Tail(entries), variables)

\* StyleEngine.computeStyle(element, ancestorPath) of new StyleEngine(stylesheet)
computeStyle(stylesheet, element, ancestorPath) ==
    ResolveAndCoerce(
        MergeRules(stylesheet.rules, element, ancestorPath,
                   {stylesheet.rules[i].specificity : i \in 1..Len(stylesheet.rules)},
                   <<>>),
        stylesheet.variables)

(***************************************************************************)
(* widget-renderers.ts: class WidgetRenderers                              *)
(*                                                                         *)
(* ctx is the RenderContext (state, eventHandlers, stylesheet, frameNumber,*)
(* currentPath) together with what the walk has done so far: the ImGui     *)
(* calls, the callbacks invoked, the warnings, the accesses to the state   *)
(* map, and whether an exception is propagating (thrown).  The values the  *)
(* binding returns in this frame are ctx.binding, asked for in call order. *)
(* `at` is the position of the element in the tree (child indices from the *)
(* root), recorded with every call.                                        *)
(***************************************************************************)

\* the number of values the binding returns in one frame before it only
\* reports "nothing happened"
MaxAnswers == 2

\* what a binding call may return: 0 is false / unchanged, 1 and 2 are true,
\* and for InputTextWithHint the text typed is "a" or "b"
BindingAnswers == {0, 1, 2}

TypedText(answer) == IF answer = 1 THEN <<"a">> ELSE <<"b">>

\* slider values are counted in tenths: 0.5 is 5
SliderDefault == 5

ImGuiCall(ctxIn, fn, at, args) ==
    Bind(ctxIn, LAMBDA ctx :
    [ctx EXCEPT !.calls = Append(@, [fn |-> fn, at |-> at, args |-> args])])

\* the value returned by the next value-returning binding call
ImGuiAnswer(ctxIn) ==
    Bind(ctxIn, LAMBDA ctx :
    IF ctx.asked < Len(ctx.binding) THEN ctx.binding[ctx.asked + 1] ELSE 0)

ImGuiAsk(ctxIn, fn, at, args) ==
    Bind(ctxIn, LAMBDA ctx :
    [ImGuiCall(ctx, fn, at, args) EXCEPT !.asked = @ + 1])

Warn(ctxIn, message, arg) ==
    Bind(ctxIn, LAMBDA ctx :
    [ctx EXCEPT !.warnings = Append(@, <<message, arg>>)])

\* element.attributes[name] || fallback
AttrOr(element, name, fallback) ==
    IF HasAttr(element, name) /\ Attr(element, name) # <<>>
    THEN Attr(element, name)
    ELSE fallback

Width == <<"w","i","d","t","h">>
Height == <<"h","e","i","g","h","t">>
Color == <<"c","o","l","o","r">>

\* style.width && style.width.type === 'number'
HasNumber(style, name) ==
    HasEntry(style, name) /\ GetEntry(style, name).type = "number"

\* private getComputedStyle(_element, _context)
getComputedStyle(element, ctx) == <<>>

\* private generateId(element, context): [...currentPath, tag].join('/')
RECURSIVE Join(_, _)
Join(parts, sep) ==
    IF parts = <<>> THEN <<>>
    ELSE IF Len(parts) = 1 THEN parts[1]
    ELSE parts[1] \o sep \o Join(Tail(parts), sep)

generateId(element, ctx) == Join(Append(ctx.currentPath, element.tag), <<"/">>)

\* private getTextContent(element)
getTextContent(element) ==
    LET strings == SelectSeq(element.children, IsString)
    IN  Trim(Concat([i \in 1..Len(strings) |-> strings[i].text]))

\* private intToImVec4(color): the channels, each over 255
intToImVec4(color) ==
    [r |-> (color.rgb \div 65536) % 256,
     g |-> (color.rgb \div 256) % 256,
     b |-> color.rgb % 256,
     a |-> color.alpha]

\* A variant of handleEvent that raises an error when no handler is registered
\* under the name; the missing-handler property below tells it from handleEvent.
handleEventThrowingWhenMissing(eventName, ctxIn) ==
    Bind(ctxIn, LAMBDA ctx :
    IF eventName \in DOMAIN ctx.eventHandlers
    THEN [ctx EXCEPT !.events = Append(@, eventName),
                     !.thrown = (ctx.eventHandlers[eventName] = "throws")]
    ELSE [Warn(ctx, "No event handler found for", eventName) EXCEPT !.thrown = TRUE])

\* private handleEvent(eventName, context)
handleEvent(eventName, ctxIn) ==
    Bind(ctxIn, LAMBDA ctx :
    IF eventName \in DOMAIN ctx.eventHandlers
    THEN [ctx EXCEPT !.events = Append(@, eventName),
                     !.thrown = (ctx.eventHandlers[eventName] = "throws")]
    ELSE Warn(ctx, "No event handler found for", eventName))

\* context.state.get(id) || { id, value: initial, lastFrame: context.frameNumber }
StateOrDefault(ctxIn, id, initial) ==
    Bind(ctxIn, LAMBDA ctx :
    IF id \in DOMAIN ctx.state
    THEN ctx.state[id]
    ELSE [id |-> id, value |-> initial, lastFrame |-> ctx.frameNumber])

Accessed(ctxIn, op, at, tag, id, value) ==
    Bind(ctxIn, LAMBDA ctx :
    [ctx EXCEPT !.accesses = Append(@, [op |-> op, at |-> at, tag |-> tag,
                                        id |-> id, value |-> value])])

\* state.value = value; state.lastFrame = context.frameNumber;
\* context.state.set(id, state)
StateSet(ctxIn, at, tag, id, value) ==
    Bind(ctxIn, LAMBDA ctx :
    LET record == [id |-> id, value |-> value, lastFrame |-> ctx.frameNumber]
        stored == [k \in DOMAIN ctx.state \cup {id} |->
                      IF k = id THEN record ELSE ctx.state[k]]
    IN  Accessed([ctx EXCEPT !.state = stored], "set", at, tag, id, value))

\* the SetNextItemWidth call made when the style has a numeric width
ApplyItemWidth(ctxIn, style, at) ==
    Bind(ctxIn, LAMBDA ctx :
    IF HasNumber(style, Width)
    THEN ImGuiCall(ctx, "SetNextItemWidth", at, [width |-> GetEntry(style, Width).value])
    ELSE ctx)

\* private renderHead(_element, _context)
renderHead(element, ctxIn, at) ==
    Bind(ctxIn, LAMBDA ctx :
    ctx)

\* private renderText(element, context)
renderText(element, ctxIn, at) ==
    Bind(ctxIn, LAMBDA ctx :
    LET text == getTextContent(element)
        style == getComputedStyle(element, ctx)
    IN  IF HasEntry(style, Color) /\ GetEntry(style, Color).type = "color"
        THEN ImGuiCall(ctx, "TextColored", at,
                       [color |-> intToImVec4(GetEntry(style, Color).value),
                        text |-> text])
        ELSE ImGuiCall(ctx, "Text", at, [text |-> text]))

\* private renderButton(element, context)
renderButton(element, ctxIn, at) ==
    Bind(ctxIn, LAMBDA ctx :
    LET text == getTextContent(element)
        style == getComputedStyle(element, ctx)
        c1 == ApplyItemWidth(ctx, style, at)
        clicked == ImGuiAnswer(c1) # 0
        c2 == ImGuiAsk(c1, "Button", at, [text |-> text])
        onClick == <<"o","n","C","l","i","c","k">>
    IN  IF clicked /\ HasAttr(element, onClick) /\ Attr(element, onClick) # <<>>
        THEN handleEvent(Attr(element, onClick), c2)
        ELSE c2)

\* A variant of renderInputText that starts from an empty buffer every frame
\* and never looks the record up; the persistence property below tells it from
\* renderInputText.
renderInputTextWithoutLookup(element, ctxIn, at) ==
    Bind(ctxIn, LAMBDA ctx :
    LET id == generateId(element, ctx)
        label == AttrOr(element, <<"l","a","b","e","l">>, <<>>)
        hint == AttrOr(element, <<"h","i","n","t">>, <<>>)
        style == getComputedStyle(element, ctx)
        c1 == ApplyItemWidth(ctx, style, at)
        c2 == Accessed(c1, "get", at, element.tag, id, <<>>)
        answer == ImGuiAnswer(c2)
        c3 == ImGuiAsk(c2, "InputTextWithHint", at,
                       [label |-> label, hint |-> hint, value |-> <<>>])
    IN  IF answer # 0
        THEN StateSet(c3, at, element.tag, id, TypedText(answer))
        ELSE c3)

\* private renderInputText(element, context)
renderInputText(element, ctxIn, at) ==
    Bind(ctxIn, LAMBDA ctx :
    LET id == generateId(element, ctx)
        st == StateOrDefault(ctx, id, <<>>)
        label == AttrOr(element, <<"l","a","b","e","l">>, <<>>)
        hint == AttrOr(element, <<"h","i","n","t">>, <<>>)
        style == getComputedStyle(element, ctx)
        c1 == ApplyItemWidth(ctx, style, at)
        value == IF st.value = <<>> THEN <<>> ELSE st.value
        c2 == Accessed(c1, "get", at, element.tag, id, value)
        answer == ImGuiAnswer(c2)
        c3 == ImGuiAsk(c2, "InputTextWithHint", at,
                       [label |-> label, hint |-> hint, value |-> value])
    IN  IF answer # 0
        THEN StateSet(c3, at, element.tag, id, TypedText(answer))
        ELSE c3)

\* private renderSliderFloat(element, context)
renderSliderFloat(element, ctxIn, at) ==
    Bind(ctxIn, LAMBDA ctx :
    LET id == generateId(element, ctx)
        st == StateOrDefault(ctx, id, SliderDefault)
        label == AttrOr(element, <<"l","a","b","e","l">>, <<>>)
        min == AttrOr(element, <<"m","i","n">>, <<"0">>)
        max == AttrOr(element, <<"m","a","x">>, <<"1">>)
        style == getComputedStyle(element, ctx)
        c1 == ApplyItemWidth(ctx, style, at)
        value == IF st.value = 0 THEN SliderDefault ELSE st.value
        c2 == Accessed(c1, "get", at, element.tag, id, value)
        changed == ImGuiAnswer(c2) # 0
        c3 == ImGuiAsk(c2, "SliderFloat", at,
                       [label |-> label, value |-> value, min |-> min, max |-> max])
    IN  IF changed
        THEN StateSet(c3, at, element.tag, id, value)
        ELSE c3)

\* private renderCheckbox(element, context)
renderCheckbox(element, ctxIn, at) ==
    Bind(ctxIn, LAMBDA ctx :
    LET id == generateId(element, ctx)
        st == StateOrDefault(ctx, id, FALSE)
        label == AttrOr(element, <<"l","a","b","e","l">>, <<>>)
        checked == IF st.value THEN st.value ELSE FALSE
        c1 == Accessed(ctx, "get", at, element.tag, id, checked)
        changed == ImGuiAnswer(c1) # 0
        c2 == ImGuiAsk(c1, "Checkbox", at, [label |-> label, checked |-> checked])
    IN  IF changed
        THEN StateSet(c2, at, element.tag, id, checked)
        ELSE c2)

\* private renderSameLine(element, _context): the arguments are the strings
\* handed to parseFloat
renderSameLine(element, ctxIn, at) ==
    Bind(ctxIn, LAMBDA ctx :
    ImGuiCall(ctx, "SameLine", at,
              [offset |-> AttrOr(element, <<"o","f","f","s","e","t">>, <<"0">>),
               spacing |-> AttrOr(element, <<"s","p","a","c","i","n","g">>, <<"-","1">>)]))

\* private renderSpacing(_element, _context)
renderSpacing(element, ctxIn, at) ==
    Bind(ctxIn, LAMBDA ctx :
    ImGuiCall(ctx, "Spacing", at, [none |-> TRUE]))

\* private renderSeparator(_element, _context)
renderSeparator(element, ctxIn, at) ==
    Bind(ctxIn, LAMBDA ctx :
    ImGuiCall(ctx, "Separator", at, [none |-> TRUE]))

RECURSIVE WidgetRenderers_render(_, _, _)
RECURSIVE RenderChildrenLoop(_, _, _, _)

\* A variant of the loop that leaves after its first iteration; the walk-order
\* property below tells it from the loop.
RenderChildrenLoopOnce(element, i, ctxIn, at) ==
    Bind(ctxIn, LAMBDA ctx :
    IF i > Len(element.children) \/ ctx.thrown THEN ctx
    ELSE LET child == element.children[i]
         IN  IF IsString(child)
             THEN IF Trim(child.text) # <<>>
                  THEN ImGuiCall(ctx, "Text", Append(at, i), [text |-> Trim(child.text)])
                  ELSE ctx
             ELSE WidgetRenderers_render(child, ctx, Append(at, i)))

\* the for loop of renderChildren
RenderChildrenLoop(element, i, ctxIn, at) ==
    Bind(ctxIn, LAMBDA ctx :
    IF i > Len(element.children) \/ ctx.thrown THEN ctx
    ELSE LET child == element.children[i]
         IN  RenderChildrenLoop(element, i + 1,
                 IF IsString(child)
                 THEN IF Trim(child.text) # <<>>
                      THEN ImGuiCall(ctx, "Text", Append(at, i), [text |-> Trim(child.text)])
                      ELSE ctx
                 ELSE WidgetRenderers_render(child, ctx, Append(at, i)),
                 at))

\* private renderChildren(element, context)
renderChildren(element, ctxIn, at) ==
    Bind(ctxIn, LAMBDA ctx :
    LET oldPath == ctx.currentPath
        c1 == [ctx EXCEPT !.currentPath = Append(@, element.tag)]
    IN  Bind(RenderChildrenLoop(element, 1, c1, at), LAMBDA c2 :
            IF c2.thrown THEN c2 ELSE [c2 EXCEPT !.currentPath = oldPath]))

\* private renderApp(element, context)
renderApp(element, ctxIn, at) ==
    Bind(ctxIn, LAMBDA ctx :
    renderChildren(element, ctx, at))

\* private renderBody(element, context)
renderBody(element, ctxIn, at) ==
    Bind(ctxIn, LAMBDA ctx :
    renderChildren(element, ctx, at))

\* private renderWindow(element, context)
renderWindow(element, ctxIn, at) ==
    Bind(ctxIn, LAMBDA ctx :
    LET title == AttrOr(element, <<"t","i","t","l","e">>, Window)
        style == getComputedStyle(element, ctx)
        c1 == IF HasNumber(style, Width)
              THEN ImGuiCall(ctx, "SetNextWindowSize", at,
                       [width |-> GetEntry(style, Width).value,
                        height |-> IF HasEntry(style, Height)
                                      /\ GetEntry(style, Height).value # 0
                                   THEN GetEntry(style, Height).value
                                   ELSE 200])
              ELSE ctx
        opened == ImGuiAnswer(c1) # 0
        c2 == ImGuiAsk(c1, "Begin", at, [title |-> title])
    IN  Bind(IF opened THEN renderChildren(element, c2, at) ELSE c2, LAMBDA c3 :
            IF c3.thrown THEN c3 ELSE ImGuiCall(c3, "End", at, [none |-> TRUE])))

\* render(element, context): the renderers map set up by setupRenderers()
WidgetRenderers_render(element, ctxIn, at) ==
    Bind(ctxIn, LAMBDA ctx :
    CASE element.tag = App -> renderApp(element, ctx, at)
      [] element.tag = HeadTag -> renderHead(element, ctx, at)
      [] element.tag = Body -> renderBody(element, ctx, at)
      [] element.tag = Window -> renderWindow(element, ctx, at)
      [] element.tag = Text -> renderText(element, ctx, at)
      [] element.tag = Button -> renderButton(element, ctx, at)
      [] element.tag = InputText -> renderInputText(element, ctx, at)
      [] element.tag = SliderFloat -> renderSliderFloat(element, ctx, at)
      [] element.tag = Checkbox -> renderCheckbox(element, ctx, at)
      [] element.tag = SameLine -> renderSameLine(element, ctx, at)
      [] element.tag = Spacing -> renderSpacing(element, ctx, at)
      [] element.tag = Separator -> renderSeparator(element, ctx, at)
      [] OTHER -> Warn(ctx, "No renderer for tag", element.tag))

(***************************************************************************)
(* state-manager.ts (class StateManager): the frame state store            *)
(***************************************************************************)

\* beginFrame(): increments the frame counter; does not clear any data
StateManager_beginFrame(number) == number + 1

\* createContext(stylesheet, eventHandlers): the frame's RenderContext over
\* the store's own map, with an empty path
StateManager_createContext(store, number, stylesheet, handlers, binding) ==
    [state |-> store, eventHandlers |-> handlers, stylesheet |-> stylesheet,
     frameNumber |-> number, currentPath |-> <<>>,
     binding |-> binding, asked |-> 0,
     calls |-> <<>>, events |-> <<>>, warnings |-> <<>>, accesses |-> <<>>,
     thrown |-> FALSE]

\* endFrame(): bookkeeping only, no record is evicted
StateManager_endFrame(store) == store

(***************************************************************************)
(* renderer.ts: class TXMLTSSRenderer                                      *)
(***************************************************************************)

\* The markup and stylesheet texts the host renders

Lt(name) == <<"<">> \o name \o <<">">>
LtSlash(name) == <<"<", "/">> \o name \o <<">">>
LtEmpty(name) == <<"<">> \o name \o <<"/", ">">>
LtAttr(name, attr, value, close) ==
    <<"<">> \o name \o <<" ">> \o attr \o <<"=", "\"">> \o value \o <<"\"">> \o close

HandlerName == <<"h">>
OtherHandlerName == <<"g">>

\* <App><Body><InputText/><InputText/></Body></App>
MarkupInputs ==
    Lt(App) \o Lt(Body) \o LtEmpty(InputText) \o LtEmpty(InputText)
    \o LtSlash(Body) \o LtSlash(App)

\* <App><Body><Window><Text>hi</Text><Button onClick="h">ok</Button></Window>
\* <SliderFloat/></Body></App>
MarkupWindow ==
    Lt(App) \o Lt(Body) \o Lt(Window)
    \o Lt(Text) \o <<"h", "i">> \o LtSlash(Text)
    \o LtAttr(Button, <<"o","n","C","l","i","c","k">>, HandlerName, <<">">>)
    \o <<"o", "k">> \o LtSlash(Button)
    \o LtSlash(Window)
    \o LtEmpty(SliderFloat)
    \o LtSlash(Body) \o LtSlash(App)

\* <App><Body><Checkbox/></Body></App>
MarkupCheckbox ==
    Lt(App) \o Lt(Body) \o LtEmpty(Checkbox) \o LtSlash(Body) \o LtSlash(App)

\* <App><Body><Button onClick="h">ok</Button><Button onClick="g">no</Button>
\* <Text>hi</Text></Body></App>
MarkupButtons ==
    Lt(App) \o Lt(Body)
    \o LtAttr(Button, <<"o","n","C","l","i","c","k">>, HandlerName, <<">">>)
    \o <<"o", "k">> \o LtSlash(Button)
    \o LtAttr(Button, <<"o","n","C","l","i","c","k">>, OtherHandlerName, <<">">>)
    \o <<"n", "o">> \o LtSlash(Button)
    \o Lt(Text) \o <<"h", "i">> \o LtSlash(Text)
    \o LtSlash(Body) \o LtSlash(App)

\* <App><Body><Panel><Text>hi</Text></Panel><Text>ok</Text></Body></App>
MarkupUnknownTag ==
    Lt(App) \o Lt(Body)
    \o Lt(<<"P","a","n","e","l">>) \o Lt(Text) \o <<"h", "i">> \o LtSlash(Text)
    \o LtSlash(<<"P","a","n","e","l">>)
    \o Lt(Text) \o <<"o", "k">> \o LtSlash(Text)
    \o LtSlash(Body) \o LtSlash(App)

\* <App><Body></App>
MarkupMismatched == Lt(App) \o Lt(Body) \o LtSlash(App)

RenderMarkups ==
    {MarkupInputs, MarkupWindow, MarkupCheckbox, MarkupButtons, MarkupUnknownTag,
     MarkupMismatched}

\* Text{color:#ff0000;}Window Button{width:5;}InputText{width:7;}
StylesheetStyled ==
    Text \o <<"{">> \o Color \o <<":","#","f","f","0","0","0","0",";","}">>
    \o Window \o <<" ">> \o Button \o <<"{">> \o Width \o <<":","5",";","}">>
    \o InputText \o <<"{">> \o Width \o <<":","7",";","}">>

\* Text{color:red}
StylesheetMalformed == Text \o <<"{">> \o Color \o <<":","r","e","d","}">>

\* the stylesheet argument left out: tss = ''
StylesheetDefault == <<>>

RenderStylesheets == {StylesheetStyled, StylesheetMalformed}

\* parseTXML(txml) and parseTSS(tss) of the texts the host renders, computed
\* once for the whole run
ParsedTXML == [txml \in RenderMarkups |-> parseTXML(txml)]
ParsedTSS == [tss \in RenderStylesheets \cup {StylesheetDefault} |-> parseTSS(tss)]

\* the values the binding returns in one frame
Bindings == [1..MaxAnswers -> BindingAnswers]

\* the most frames a run renders
MaxFrames == 2

EmptyMap == [k \in {} |-> k]

NoElement == Element(<<>>, <<>>, <<>>)
NoStylesheet == [variables |-> <<>>, rules |-> <<>>]

\* What the last render call was given and did: its arguments, whether both
\* texts parsed, the error caught (if any), whether an exception reached the
\* caller, and the binding calls, the values the binding returned (one for
\* every call that returns a value, in call order), and the callbacks, warnings
\* and state accesses made.
NoFrame ==
    [rendered |-> FALSE, number |-> 0, txml |-> <<>>, tss |-> <<>>,
     parsed |-> FALSE, propagated |-> FALSE, caught |-> "",
     calls |-> <<>>, answers |-> <<>>, events |-> <<>>, warnings |-> <<>>,
     accesses |-> <<>>, ended |-> FALSE]

\* private renderElement(element, context, styleEngine)
renderElement(element, ctxIn) ==
    Bind(ctxIn, LAMBDA ctx :
    LET computed == computeStyle(ctx.stylesheet, element, ctx.currentPath)
    IN  WidgetRenderers_render(element, ctx, <<>>))

\* A variant of render that falls back to an empty stylesheet when the
\* stylesheet text does not parse; the parse-failure property below tells it
\* from render.
renderWithEmptyStylesheetOnError(txml, tss) ==
    LET xmlElement == ParsedTXML[txml]
        stylesheet == IF ParsedTSS[tss].ok THEN ParsedTSS[tss]
                      ELSE TssOk(NoStylesheet, TssParser0)
        failed == [NoFrame EXCEPT !.rendered = TRUE, !.number = frameNumber,
                                  !.txml = txml, !.tss = tss]
    IN  IF ~xmlElement.ok
        THEN /\ frame' = [failed EXCEPT !.caught = xmlElement.err.name]
             /\ UNCHANGED <<state, frameNumber>>
        ELSE \E binding \in Bindings :
        LET number == StateManager_beginFrame(frameNumber)
            context == StateManager_createContext(state, number, stylesheet.val,
                                                  eventHandlers, binding)
        IN  \E done \in {renderElement(xmlElement.val, context)} :
            /\ frameNumber' = number
            /\ state' = IF done.thrown THEN done.state
                        ELSE StateManager_endFrame(done.state)
            /\ frame' = [rendered |-> TRUE, number |-> number,
                         txml |-> txml, tss |-> tss, parsed |-> TRUE,
                         propagated |-> FALSE,
                         caught |-> IF done.thrown THEN "Error" ELSE "",
                         calls |-> done.calls,
                         answers |-> [i \in 1..done.asked |->
                                         IF i <= Len(binding) THEN binding[i] ELSE 0],
                         events |-> done.events,
                         warnings |-> done.warnings, accesses |-> done.accesses,
                         ended |-> ~done.thrown]

\* render(txml, tss): the values the binding returns during the walk are any
\* of Bindings
render(txml, tss) ==
    LET xmlElement == ParsedTXML[txml]
        stylesheet == ParsedTSS[tss]
        failed == [NoFrame EXCEPT !.rendered = TRUE, !.number = frameNumber,
                                  !.txml = txml, !.tss = tss]
    IN  IF ~xmlElement.ok
        THEN /\ frame' = [failed EXCEPT !.caught = xmlElement.err.name]
             /\ UNCHANGED <<state, frameNumber>>
        ELSE IF ~stylesheet.ok
        THEN /\ frame' = [failed EXCEPT !.caught = stylesheet.err.name]
             /\ UNCHANGED <<state, frameNumber>>
        ELSE \E binding \in Bindings :
        LET number == StateManager_beginFrame(frameNumber)
            context == StateManager_createContext(state, number, stylesheet.val,
                                                  eventHandlers, binding)
        IN  \E done \in {renderElement(xmlElement.val, context)} :
            /\ frameNumber' = number
            /\ state' = IF done.thrown THEN done.state
                        ELSE StateManager_endFrame(done.state)
            /\ frame' = [rendered |-> TRUE, number |-> number,
                         txml |-> txml, tss |-> tss, parsed |-> TRUE,
                         propagated |-> FALSE,
                         caught |-> IF done.thrown THEN "Error" ELSE "",
                         calls |-> done.calls,
                         answers |-> [i \in 1..done.asked |->
                                         IF i <= Len(binding) THEN binding[i] ELSE 0],
                         events |-> done.events,
                         warnings |-> done.warnings, accesses |-> done.accesses,
                         ended |-> ~done.thrown]

\* registerEventHandler(name, callback): the callback returns or throws
registerEventHandler(name, callback) ==
    eventHandlers' = [k \in DOMAIN eventHandlers \cup {name} |->
                         IF k = name THEN callback ELSE eventHandlers[k]]

\* clearState(): the store's map is emptied in place
clearState == state' = EmptyMap

\* A reference to a Map held by the host: the object it refers to ("state" is
\* the store's own map, "copy" a map of its own), the entries the object had
\* when it was returned, and the number of times the host has written to it.
NoReference == [held |-> FALSE, object |-> "", entries |-> EmptyMap, writes |-> 0]

\* getState(): returns this.stateManager['state'], the store's own map
getState ==
    returned' = [held |-> TRUE, object |-> "state", entries |-> state, writes |-> 0]

\* the entries the host finds in the object it holds
Deref(reference, store) ==
    IF reference.object = "state" THEN store ELSE reference.entries

\* the most writes the host makes through a reference it holds
MaxHostWrites == 1

\* the host calls clear() on the map getState returned
HostClear ==
    /\ returned.held /\ returned.writes < MaxHostWrites
    /\ returned' = [returned EXCEPT !.writes = @ + 1]
    /\ state' = IF returned.object = "state" THEN EmptyMap ELSE state

(***************************************************************************)
(* The host: a frame loop that registers handlers, renders markup with a   *)
(* stylesheet and may reset the state                                      *)
(***************************************************************************)

Init ==
    /\ state = EmptyMap
    /\ frameNumber = 0
    /\ eventHandlers = EmptyMap
    /\ frame = NoFrame /\ returned = NoReference
    /\ xmlDoc = <<>> /\ xmlResult = [called |-> FALSE]
    /\ tssDoc = <<>> /\ tssResult = [called |-> FALSE]
    /\ jsxTree = NoElement /\ jsxResult = [called |-> FALSE]

Render ==
    /\ frameNumber < MaxFrames
    /\ \E txml \in RenderMarkups, tss \in RenderStylesheets : render(txml, tss)
    /\ UNCHANGED <<eventHandlers, returned, xmlVars, tssVars, jsxVars>>

RegisterEventHandler ==
    /\ \/ \E callback \in {"returns", "throws"} :
              registerEventHandler(HandlerName, callback)
       \/ registerEventHandler(OtherHandlerName, "returns")
    /\ UNCHANGED <<state, frameNumber, frame, returned, xmlVars, tssVars, jsxVars>>

ClearState ==
    /\ clearState
    /\ UNCHANGED <<frameNumber, eventHandlers, frame, returned, xmlVars, tssVars, jsxVars>>

Next == Render \/ RegisterEventHandler \/ ClearState

Spec == Init /\ [][Next]_vars

\* A host that also inspects the state: it renders the markup with the input
\* fields or the checkbox without a stylesheet, and calls getState, writes to
\* the map it got, and calls clearState.
RenderForm ==
    /\ frameNumber < MaxFrames
    /\ \E txml \in {MarkupInputs, MarkupCheckbox} : render(txml, StylesheetDefault)
    /\ UNCHANGED <<eventHandlers, returned, xmlVars, tssVars, jsxVars>>

GetState ==
    /\ getState
    /\ UNCHANGED <<state, frameNumber, eventHandlers, frame, xmlVars, tssVars, jsxVars>>

HostWrite ==
    /\ HostClear
    /\ UNCHANGED <<frameNumber, eventHandlers, frame, xmlVars, tssVars, jsxVars>>

NextHost == RenderForm \/ GetState \/ HostWrite \/ ClearState

SpecHost == Init /\ [][NextHost]_vars

\* the tags whose renderers keep a state record
InteractiveTags == {InputText, SliderFloat, Checkbox}

Parent(at) == SubSeq(at, 1, Len(at) - 1)

\* C1: within one frame, two interactive elements that are siblings with the
\* same tag under the same parent use distinct state identities.
SiblingIdentitiesDistinct ==
    \A j, k \in 1..Len(frame.accesses) :
        LET a == frame.accesses[j]
            b == frame.accesses[k]
        IN  (/\ a.tag \in InteractiveTags /\ a.tag = b.tag
             /\ a.at # b.at
             /\ Len(a.at) = Len(b.at) /\ Len(a.at) > 0
             /\ Parent(a.at) = Parent(b.at))
                => a.id # b.id

\* the last write to id among the first n accesses of a frame, 0 when none
LastSetBefore(accesses, n, id) ==
    LET sets == {j \in 1..n : accesses[j].op = "set" /\ accesses[j].id = id}
    IN  IF sets = {} THEN 0 ELSE CHOOSE j \in sets : \A i \in sets : i <= j

\* C2: a render call removes no state record and changes only the records its
\* frame writes; every read of a frame returns the record's stored value (the
\* value of an earlier frame until this frame writes the identity again); and
\* apart from render only clearState changes the store.
StatePersists ==
    [][/\ frame' # frame =>
            /\ \A id \in DOMAIN state :
                   /\ id \in DOMAIN state'
                   /\ \/ state'[id] = state[id]
                      \/ \E k \in 1..Len(frame'.accesses) :
                             /\ frame'.accesses[k].op = "set"
                             /\ frame'.accesses[k].id = id
            /\ \A k \in 1..Len(frame'.accesses) :
                   LET a == frame'.accesses[k]
                       w == LastSetBefore(frame'.accesses, k - 1, a.id)
                   IN  (a.op = "get" /\ (w > 0 \/ a.id \in DOMAIN state)) =>
                           a.value = IF w > 0 THEN frame'.accesses[w].value
                                     ELSE state[a.id].value
       /\ frame' = frame => (state' = state \/ state' = EmptyMap)]_vars

\* the second frame read, as its first access, text that the first frame
\* stored, and left the record as the first frame wrote it
StoredTextReadNextFrame ==
    /\ frame.rendered /\ frame.parsed /\ frame.number = 2
    /\ Len(frame.accesses) > 0
    /\ \A k \in 1..Len(frame.accesses) : frame.accesses[k].op = "get"
    /\ frame.accesses[1].tag = InputText
    /\ frame.accesses[1].value = <<"b">>
    /\ state[frame.accesses[1].id].lastFrame = 1

\* C3: a render call whose markup text or stylesheet text fails to parse
\* returns normally, makes no binding call, invokes no event handler and leaves
\* the state records as they were.
ParseFailureIsInert ==
    [][(/\ frame' # frame
        /\ frame'.rendered
        /\ \/ ~ParsedTXML[frame'.txml].ok
           \/ ~ParsedTSS[frame'.tss].ok)
           => /\ ~frame'.propagated
              /\ frame'.calls = <<>>
              /\ frame'.events = <<>>
              /\ state' = state]_vars

\* a stylesheet that does not parse was rendered with markup that does, while
\* the store held a record and a handler was registered
MalformedStylesheetRendered ==
    /\ frame.rendered
    /\ ParsedTXML[frame.txml].ok /\ ~ParsedTSS[frame.tss].ok
    /\ frame.caught = "TSSParseError"
    /\ frame.calls = <<>>
    /\ state # EmptyMap
    /\ HandlerName \in DOMAIN eventHandlers

\* the element at a position of the tree, and the tags of its ancestors
RECURSIVE ElementAt(_, _)
ElementAt(element, at) ==
    IF at = <<>> THEN element
    ELSE ElementAt(element.children[Head(at)], Tail(at))

RECURSIVE AncestorPath(_, _)
AncestorPath(element, at) ==
    IF at = <<>> THEN <<>>
    ELSE <<element.tag>> \o AncestorPath(element.children[Head(at)], Tail(at))

\* C9: the style a widget renderer applies is the style computed for the
\* element and its ancestor path from the frame's stylesheet: a Text with a
\* computed color is drawn with TextColored in that color, and a Button,
\* InputText or SliderFloat with a computed numeric width has that width set
\* just before it is drawn.
ComputedStyleApplied ==
    (frame.rendered /\ frame.parsed) =>
        \A k \in 1..Len(frame.calls) :
            LET c == frame.calls[k]
                root == ParsedTXML[frame.txml].val
                element == ElementAt(root, c.at)
                style == IF IsString(element) THEN <<>>
                         ELSE computeStyle(ParsedTSS[frame.tss].val, element,
                                           AncestorPath(root, c.at))
            IN  /\ (/\ ~IsString(element) /\ element.tag = Text
                    /\ c.fn \in {"Text", "TextColored"}
                    /\ HasEntry(style, Color))
                       => /\ c.fn = "TextColored"
                          /\ c.args.color = intToImVec4(GetEntry(style, Color).value)
                /\ (/\ ~IsString(element)
                    /\ c.fn \in {"Button", "InputTextWithHint", "SliderFloat"}
                    /\ HasEntry(style, Width))
                       => /\ k > 1
                          /\ frame.calls[k - 1].fn = "SetNextItemWidth"
                          /\ frame.calls[k - 1].args.width = GetEntry(style, Width).value

\* the binding functions that return a value
AskingFns == {"Begin", "Button", "InputTextWithHint", "SliderFloat", "Checkbox"}

\* the value the binding returned to call k of a frame
AnswerOf(f, k) ==
    f.answers[Cardinality({j \in 1..k : f.calls[j].fn \in AskingFns})]

\* the tree a frame rendered
TreeOf(f) == ParsedTXML[f.txml].val

OnClick == <<"o","n","C","l","i","c","k">>

\* the positions of the element siblings that follow the element at a position
FollowingSiblings(tree, at) ==
    {Append(Parent(at), i) : i \in
        {j \in (at[Len(at)] + 1)..Len(ElementAt(tree, Parent(at)).children) :
            ~IsString(ElementAt(tree, Parent(at)).children[j])}}

\* C14: when a Button reports a click and its onClick attribute names a handler
\* that is not registered, no callback is invoked for it and no error is
\* raised: the following siblings of the Button are rendered in the same frame
\* and the render call returns normally (as long as no registered handler
\* invoked in the frame throws).
UnregisteredHandlerIgnored ==
    [][\A k \in 1..Len(frame'.calls) :
          LET c == frame'.calls[k]
              button == ElementAt(TreeOf(frame'), c.at)
          IN  (/\ frame' # frame
               /\ c.fn = "Button"
               /\ AnswerOf(frame', k) # 0
               /\ HasAttr(button, OnClick)
               /\ Attr(button, OnClick) \notin DOMAIN eventHandlers
               /\ \A i \in 1..Len(frame'.events) :
                      eventHandlers[frame'.events[i]] = "returns")
              => /\ \A i \in 1..Len(frame'.events) :
                        frame'.events[i] # Attr(button, OnClick)
                 /\ frame'.caught = "" /\ ~frame'.propagated /\ frame'.ended
                 /\ \A s \in FollowingSiblings(TreeOf(frame'), c.at) :
                        \E j \in (k + 1)..Len(frame'.calls) : frame'.calls[j].at = s]_vars

\* both Buttons of MarkupButtons reported a click while no handler was
\* registered under h: no callback ran for the first Button, the second Button
\* and the Text after it were rendered and the frame ended
UnregisteredHandlerClicked ==
    /\ frame.rendered /\ frame.txml = MarkupButtons /\ frame.ended
    /\ frame.answers = <<1, 1>>
    /\ frame.warnings[1] = <<"No event handler found for", HandlerName>>
    /\ frame.events = <<OtherHandlerName>>
    /\ [k \in 1..Len(frame.calls) |-> frame.calls[k].fn] = <<"Button", "Button", "Text">>

\* the binding function a renderer calls for its element, by tag
WidgetFns ==
    [tag \in SUPPORTED_TAGS \ {App, HeadTag, Body} |->
        CASE tag = Window -> {"Begin"}
          [] tag = Text -> {"Text", "TextColored"}
          [] tag = Button -> {"Button"}
          [] tag = InputText -> {"InputTextWithHint"}
          [] tag = SliderFloat -> {"SliderFloat"}
          [] tag = Checkbox -> {"Checkbox"}
          [] tag = SameLine -> {"SameLine"}
          [] tag = Spacing -> {"Spacing"}
          [] tag = Separator -> {"Separator"}]

\* the positions of the Windows whose Begin returned true in a frame
OpenedWindows(f) ==
    {f.calls[k].at : k \in {j \in 1..Len(f.calls) :
                               f.calls[j].fn = "Begin" /\ AnswerOf(f, j) # 0}}

\* the positions, depth first and left to right, of the widget elements whose
\* ancestors are all App, Body or opened Window elements
RECURSIVE DocumentOrder(_, _, _)
DocumentOrder(element, at, opened) ==
    (IF element.tag \in DOMAIN WidgetFns THEN <<at>> ELSE <<>>)
    \o (IF element.tag \in {App, Body} \/ (element.tag = Window /\ at \in opened)
        THEN Concat([i \in 1..Len(element.children) |->
                        IF IsString(element.children[i]) THEN <<>>
                        ELSE DocumentOrder(element.children[i], Append(at, i), opened)])
        ELSE <<>>)

\* the handler names of the Buttons that returned true in a frame and whose
\* onClick names a registered handler, in call order from call k on
RECURSIVE ClickedHandlers(_, _, _)
ClickedHandlers(f, k, handlers) ==
    IF k > Len(f.calls) THEN <<>>
    ELSE LET button == ElementAt(TreeOf(f), f.calls[k].at)
         IN  (IF /\ f.calls[k].fn = "Button" /\ AnswerOf(f, k) # 0
                 /\ HasAttr(button, OnClick)
                 /\ Attr(button, OnClick) \in DOMAIN handlers
              THEN <<Attr(button, OnClick)>> ELSE <<>>)
             \o ClickedHandlers(f, k + 1, handlers)

\* C15: in a render call whose texts parse and in which no handler throws,
\* every widget element whose ancestors are all App, Body or opened Window
\* elements gets its binding call exactly once, in depth-first left-to-right
\* document order, and the callbacks invoked are exactly the registered onClick
\* handlers of the Buttons that reported a click, once each, in document order;
\* this holds in every frame, so N render calls run a clicked Button's handler
\* N times.
WalkInDocumentOrder ==
    [][(/\ frame' # frame
        /\ frame'.rendered /\ frame'.parsed
        /\ \A i \in 1..Len(frame'.events) : eventHandlers[frame'.events[i]] = "returns")
       => LET tree == TreeOf(frame')
              own == SelectSeq(frame'.calls, LAMBDA c :
                         /\ ~IsString(ElementAt(tree, c.at))
                         /\ ElementAt(tree, c.at).tag \in DOMAIN WidgetFns
                         /\ c.fn \in WidgetFns[ElementAt(tree, c.at).tag])
          IN  /\ [i \in 1..Len(own) |-> own[i].at]
                     = DocumentOrder(tree, <<>>, OpenedWindows(frame'))
              /\ frame'.events = ClickedHandlers(frame', 1, eventHandlers)
              /\ frame'.ended]_vars

\* the second frame of MarkupButtons with both Buttons reporting a click and
\* both handlers registered: h ran, then g, after the same happened in the
\* first frame or not
TwoButtonsClickedInSecondFrame ==
    /\ frame.rendered /\ frame.parsed /\ frame.ended
    /\ frame.number = 2
    /\ frame.txml = MarkupButtons
    /\ frame.answers = <<2, 1>>
    /\ frame.events = <<HandlerName, OtherHandlerName>>
    /\ [k \in 1..Len(frame.calls) |-> frame.calls[k].at] = <<<<1, 1>>, <<1, 2>>, <<1, 3>>>>

\* the positions of the elements of a tree
RECURSIVE Positions(_, _)
Positions(element, at) ==
    {at} \cup UNION {IF IsString(element.children[i]) THEN {}
                     ELSE Positions(element.children[i], Append(at, i)) :
                     i \in 1..Len(element.children)}

\* C16: an element with an unrecognized tag that the walk reaches is an inert
\* container: it produces a warning and no binding call of its own, no error
\* is raised, and its child elements are visited and rendered.
UnknownTagIsInertContainer ==
    (frame.rendered /\ frame.parsed /\ frame.ended) =>
        \A at \in Positions(TreeOf(frame), <<>>) :
            LET element == ElementAt(TreeOf(frame), at)
                ancestors == AncestorPath(TreeOf(frame), at)
            IN  (/\ element.tag \notin SUPPORTED_TAGS
                 /\ \A i \in 1..Len(ancestors) : ancestors[i] \in {App, Body})
                => /\ \E i \in 1..Len(frame.warnings) :
                          frame.warnings[i] = <<"No renderer for tag", element.tag>>
                   /\ \A k \in 1..Len(frame.calls) : frame.calls[k].at # at
                   /\ frame.caught = "" /\ ~frame.propagated
                   /\ \A child \in Positions(element, at) \ {at} :
                          (/\ Len(child) = Len(at) + 1
                           /\ ElementAt(TreeOf(frame), child).tag \in DOMAIN WidgetFns)
                          => \E k \in 1..Len(frame.calls) : frame.calls[k].at = child

\* what the code does with an unrecognized tag: a warning and nothing else, no
\* call is made for the element or for anything below it
UnknownTagSkipsSubtree ==
    (frame.rendered /\ frame.parsed /\ frame.ended) =>
        \A at \in Positions(TreeOf(frame), <<>>) :
            LET element == ElementAt(TreeOf(frame), at)
                ancestors == AncestorPath(TreeOf(frame), at)
            IN  (/\ element.tag \notin SUPPORTED_TAGS
                 /\ \A i \in 1..Len(ancestors) : ancestors[i] \in {App, Body})
                => /\ \E i \in 1..Len(frame.warnings) :
                          frame.warnings[i] = <<"No renderer for tag", element.tag>>
                   /\ frame.caught = ""
                   /\ \A below \in Positions(element, at) :
                          \A k \in 1..Len(frame.calls) : frame.calls[k].at # below

\* C17: what getState returns is a read-only snapshot: a change the host makes
\* to the returned object leaves the records that later render calls read as
\* they were, and a later render or clearState call leaves the entries of an
\* object returned earlier as they were.
GetStateIsSnapshot ==
    [][/\ (returned.held /\ returned'.writes # returned.writes) => state' = state
       /\ (returned.held /\ returned' = returned)
              => Deref(returned', state') = Deref(returned, state)]_vars

\* the host holds the map returned by getState when the store had a record,
\* and the store has been cleared since
ReturnedMapCleared ==
    /\ returned.held /\ returned.writes = 0
    /\ returned.entries # EmptyMap
    /\ state = EmptyMap
    /\ Deref(returned, state) = EmptyMap

\* the value a renderer starts from when the store has no record
DefaultValue(tag) ==
    CASE tag = InputText -> <<>>
      [] tag = SliderFloat -> SliderDefault
      [] tag = Checkbox -> FALSE

\* C18: after a frame that renders an interactive element whose identity has no
\* record yet, the store has a record for that identity; when the binding
\* reported no change for it, the record holds the element's default value
\* ('' / 0.5 / false) and the number of the frame.
RecordSeededOnFirstRender ==
    [][\A k \in 1..Len(frame'.accesses) :
          LET a == frame'.accesses[k]
          IN  (/\ frame' # frame /\ frame'.ended
               /\ a.op = "get" /\ a.tag \in InteractiveTags
               /\ a.id \notin DOMAIN state)
              => /\ a.id \in DOMAIN state'
                 /\ (\A j \in 1..Len(frame'.accesses) :
                        ~(frame'.accesses[j].op = "set" /\ frame'.accesses[j].id = a.id))
                    => /\ state'[a.id].value = DefaultValue(a.tag)
                       /\ state'[a.id].lastFrame = frame'.number]_vars

\* C19: when the binding reports that the user changed a SliderFloat or a
\* Checkbox, the record stored for the element afterwards does not hold the
\* value from before the change (the value that was passed to the binding) and
\* has lastFrame equal to the frame number, and a frame passes to the binding
\* the value of the record it finds.
ChangedValueStored ==
    [][\A k \in 1..Len(frame'.calls) :
          LET c == frame'.calls[k]
          IN  (/\ frame' # frame /\ frame'.ended
               /\ c.fn \in {"SliderFloat", "Checkbox"})
              => \E j \in 1..Len(frame'.accesses) :
                    LET a == frame'.accesses[j]
                    IN  /\ a.op = "get" /\ a.at = c.at
                        /\ a.id \in DOMAIN state => a.value = state[a.id].value
                        /\ AnswerOf(frame', k) # 0
                              => /\ a.id \in DOMAIN state'
                                 /\ state'[a.id].value # a.value
                                 /\ state'[a.id].lastFrame = frame'.number]_vars

\* what the code does instead: the record stored after a reported change holds
\* the value that was passed to the binding
ChangedValueLost ==
    [][\A k \in 1..Len(frame'.calls) :
          LET c == frame'.calls[k]
          IN  (/\ frame' # frame /\ frame'.ended
               /\ c.fn \in {"SliderFloat", "Checkbox"}
               /\ AnswerOf(frame', k) # 0)
              => \E j \in 1..Len(frame'.accesses) :
                    LET a == frame'.accesses[j]
                    IN  /\ a.op = "get" /\ a.at = c.at
                        /\ state'[a.id].value = a.value
                        /\ state'[a.id].lastFrame = frame'.number]_vars

(***************************************************************************)
(* parseTXML applied to markup texts.  A markup text is put together from  *)
(* lexical pieces (opening, closing and self-closing tags, text, comments) *)
(* in any order, so that well-formed and ill-formed documents both occur.  *)
(***************************************************************************)

\* the most pieces of a markup text
MaxPieces == 4

OpenP(name) == [kind |-> "open", name |-> name, text |-> Lt(name)]
CloseP(name) == [kind |-> "close", name |-> name, text |-> LtSlash(name)]
EmptyP(name) == [kind |-> "empty", name |-> name, text |-> LtEmpty(name)]
TextP(text) == [kind |-> "text", name |-> <<>>, text |-> text]
CommentP(body) ==
    [kind |-> "comment", name |-> <<>>,
     text |-> <<"<","!","-","-">> \o body \o <<"-","-",">">>]

XmlPieces ==
    {OpenP(App), CloseP(App), OpenP(Body), CloseP(Body),
     EmptyP(Text), EmptyP(<<"a","p","p">>),
     TextP(<<"h","i">>), TextP(<<"h","i"," ">>), TextP(<<"-","-",">">>),
     CommentP(LtSlash(Body))}

XmlDocs == UNION {[1..n -> XmlPieces] : n \in 1..MaxPieces}

XmlText(doc) == Concat([i \in 1..Len(doc) |-> doc[i].text])

InitTXML ==
    /\ xmlDoc \in XmlDocs
    /\ xmlResult = [called |-> FALSE]
    /\ state = EmptyMap /\ frameNumber = 0 /\ eventHandlers = EmptyMap
    /\ frame = NoFrame /\ returned = NoReference
    /\ tssDoc = <<>> /\ tssResult = [called |-> FALSE]
    /\ jsxTree = NoElement /\ jsxResult = [called |-> FALSE]

ParseTXML ==
    /\ ~xmlResult.called
    /\ xmlResult' = [called |-> TRUE, result |-> parseTXML(XmlText(xmlDoc))]
    /\ UNCHANGED <<xmlDoc, rendererVars, tssVars, jsxVars>>

NextTXML == ParseTXML

SpecTXML == InitTXML /\ [][NextTXML]_vars

\* The tag structure of a sequence of pieces, read off the pieces themselves:
\* "wellformed" (one root element, every closing tag matching), "mismatch"
\* (the first closing tag that does not name the element it closes, with the
\* tag expected and the tag found), or another defect.
RECURSIVE XmlScan(_, _, _)
XmlScan(doc, i, open) ==
    IF i > Len(doc)
    THEN [kind |-> IF open = <<>> THEN "wellformed" ELSE "unclosed",
          expected |-> <<>>, found |-> <<>>]
    ELSE IF i = 1
    THEN IF doc[1].kind = "open" THEN XmlScan(doc, 2, <<doc[1].name>>)
         ELSE IF doc[1].kind = "empty" THEN XmlScan(doc, 2, <<>>)
         ELSE [kind |-> "noroot", expected |-> <<>>, found |-> <<>>]
    ELSE IF open = <<>>
    THEN [kind |-> "trailing", expected |-> <<>>, found |-> <<>>]
    ELSE IF doc[i].kind = "open" THEN XmlScan(doc, i + 1, Append(open, doc[i].name))
    ELSE IF doc[i].kind = "close"
    THEN IF doc[i].name = open[Len(open)]
         THEN XmlScan(doc, i + 1, SubSeq(open, 1, Len(open) - 1))
         ELSE [kind |-> "mismatch", expected |-> open[Len(open)], found |-> doc[i].name]
    ELSE XmlScan(doc, i + 1, open)

XmlShape(doc) == XmlScan(doc, 1, <<>>)

\* C4: a markup text in which a closing tag does not name the element it
\* closes is rejected by parseTXML with a TXMLParseError whose message names the
\* tag that was expected and the tag that was found.
MismatchedClosingTagRejected ==
    (xmlResult.called /\ XmlShape(xmlDoc).kind = "mismatch") =>
        /\ ~xmlResult.result.ok
        /\ xmlResult.result.err.name = "TXMLParseError"
        /\ xmlResult.result.err.message =
               "Mismatched closing tag: expected </${tag}> but found </${closingTag}>"
        /\ xmlResult.result.err.args =
               <<XmlShape(xmlDoc).expected, XmlShape(xmlDoc).found>>

\* <App><Body></App> has been parsed: Body was expected, App was found.
MismatchedClosingTagParsed ==
    /\ xmlResult.called
    /\ xmlDoc = <<OpenP(App), OpenP(Body), CloseP(App)>>
    /\ XmlShape(xmlDoc).kind = "mismatch"
    /\ ~xmlResult.result.ok
    /\ xmlResult.result.err.args = <<Body, App>>

\* C5: every tree parseTXML returns has the root tag App, and a markup text that
\* is well formed but whose root element is not App (the comparison is case
\* sensitive) is rejected with the TXMLParseError "Root element must be <App>".
RootIsApp ==
    xmlResult.called =>
        /\ xmlResult.result.ok => xmlResult.result.val.tag = App
        /\ (XmlShape(xmlDoc).kind = "wellformed" /\ xmlDoc[1].name # App) =>
               /\ ~xmlResult.result.ok
               /\ xmlResult.result.err.name = "TXMLParseError"
               /\ xmlResult.result.err.message = "Root element must be <App>"

\* a well-formed text with root <app/>, and one with root <Body>, were rejected
NonAppRootParsed ==
    /\ xmlResult.called
    /\ XmlShape(xmlDoc).kind = "wellformed"
    /\ xmlDoc[1].name \in {<<"a","p","p">>, Body}
    /\ Len(xmlDoc) > 1 => xmlDoc[1].kind = "open"
    /\ ~xmlResult.result.ok
    /\ xmlResult.result.err.message = "Root element must be <App>"

\* a well-formed text with root App was parsed into a tree with children
AppRootParsed ==
    /\ xmlResult.called
    /\ XmlShape(xmlDoc).kind = "wellformed"
    /\ xmlResult.result.ok
    /\ xmlResult.result.val.tag = App
    /\ Len(xmlResult.result.val.children) > 0

\* The tags and text runs of a sequence of pieces in markup order: a text run
\* is the text between two tags or comments, trimmed, and is left out when it
\* is only whitespace; an empty-element tag opens and closes its element.
XmlToken(kind, name, text) == [kind |-> kind, name |-> name, text |-> text]

XmlTextToken(run) ==
    IF Trim(run) = <<>> THEN <<>> ELSE <<XmlToken("text", <<>>, Trim(run))>>

RECURSIVE XmlTokens(_, _, _)
XmlTokens(doc, i, run) ==
    IF i > Len(doc) THEN XmlTextToken(run)
    ELSE IF doc[i].kind = "text" THEN XmlTokens(doc, i + 1, run \o doc[i].text)
    ELSE XmlTextToken(run)
         \o (CASE doc[i].kind = "open" -> <<XmlToken("open", doc[i].name, <<>>)>>
               [] doc[i].kind = "close" -> <<XmlToken("close", doc[i].name, <<>>)>>
               [] doc[i].kind = "empty" ->
                    <<XmlToken("open", doc[i].name, <<>>),
                      XmlToken("close", doc[i].name, <<>>)>>
               [] OTHER -> <<>>)
         \o XmlTokens(doc, i + 1, <<>>)

\* the tags and string children of a parsed tree, depth first, left to right
RECURSIVE TreeTokens(_)
TreeTokens(child) ==
    IF IsString(child) THEN <<XmlToken("text", <<>>, child.text)>>
    ELSE <<XmlToken("open", child.tag, <<>>)>>
         \o Concat([i \in 1..Len(child.children) |-> TreeTokens(child.children[i])])
         \o <<XmlToken("close", child.tag, <<>>)>>

\* the string children of a parsed tree, at any depth
RECURSIVE StringChildren(_)
StringChildren(element) ==
    UNION {IF IsString(element.children[i]) THEN {element.children[i].text}
           ELSE StringChildren(element.children[i]) : i \in 1..Len(element.children)}

\* C11: every string child in a tree returned by parseTXML is non-empty and has
\* no leading or trailing whitespace (text runs are trimmed, whitespace-only
\* runs are dropped), and string and element children appear in markup order.
StringChildrenTrimmedInOrder ==
    (xmlResult.called /\ xmlResult.result.ok) =>
        /\ \A s \in StringChildren(xmlResult.result.val) :
              s # <<>> /\ Head(s) \notin WhiteSpace /\ s[Len(s)] \notin WhiteSpace
        /\ TreeTokens(xmlResult.result.val) = XmlTokens(xmlDoc, 1, <<>>)

\* what the code does instead: a string child is the text run without its
\* leading whitespace only, and is dropped when it is only whitespace
StringChildrenTrimmedAtStart ==
    (xmlResult.called /\ xmlResult.result.ok) =>
        /\ \A s \in StringChildren(xmlResult.result.val) :
              s # <<>> /\ Head(s) \notin WhiteSpace
        /\ LET got == TreeTokens(xmlResult.result.val)
               want == XmlTokens(xmlDoc, 1, <<>>)
           IN /\ Len(got) = Len(want)
              /\ \A i \in 1..Len(got) :
                    /\ got[i].kind = want[i].kind
                    /\ got[i].name = want[i].name
                    /\ Trim(got[i].text) = want[i].text

\* the markup without its comments
WithoutComments(doc) == SelectSeq(doc, LAMBDA piece : piece.kind # "comment")

\* every comment of the markup is among the children of an element: the root
\* element is open where the comment stands
CommentsAmongChildren(doc) ==
    /\ doc[1].kind = "open"
    /\ \A i \in 1..Len(doc) :
          doc[i].kind = "comment" =>
              \A j \in 2..i :
                  Cardinality({k \in 1..(j - 1) : doc[k].kind = "open"})
                      > Cardinality({k \in 1..(j - 1) : doc[k].kind = "close"})

\* a tree without its string children, and the characters of its string
\* children (whitespace aside) in document order
RECURSIVE ElementsOnly(_)
ElementsOnly(element) ==
    LET elements == SelectSeq(element.children, LAMBDA child : ~IsString(child))
    IN  Element(element.tag, element.attributes,
                [i \in 1..Len(elements) |-> ElementsOnly(elements[i])])

RECURSIVE TextOnly(_)
TextOnly(child) ==
    IF IsString(child) THEN SelectSeq(child.text, LAMBDA ch : ch \notin WhiteSpace)
    ELSE Concat([i \in 1..Len(child.children) |-> TextOnly(child.children[i])])

\* C20: for a markup text with terminated comments among an element's
\* children, parseTXML skips each comment from <!-- through the first following
\* -->: the text parses exactly when the text without the comments parses, and
\* then to the same elements and attributes and the same text, so that nothing
\* from inside a comment is in the tree and nothing after its --> is lost.
CommentsSkipped ==
    (/\ xmlResult.called
     /\ WithoutComments(xmlDoc) # xmlDoc
     /\ CommentsAmongChildren(xmlDoc))
    => LET without == parseTXML(XmlText(WithoutComments(xmlDoc)))
       IN  /\ xmlResult.result.ok = without.ok
           /\ xmlResult.result.ok =>
                 /\ ElementsOnly(xmlResult.result.val) = ElementsOnly(without.val)
                 /\ TextOnly(xmlResult.result.val) = TextOnly(without.val)

\* <App><!--</Body>-->--></App> was parsed: the only child is the text -->
CommentParsed ==
    /\ xmlResult.called /\ xmlResult.result.ok
    /\ xmlDoc = <<OpenP(App), CommentP(LtSlash(Body)), TextP(<<"-","-",">">>), CloseP(App)>>
    /\ xmlResult.result.val.children = <<TextChild(<<"-","-",">">>)>>

(***************************************************************************)
(* parseTSS applied to stylesheet texts.  A stylesheet text is put         *)
(* together from blocks: ordinary rules, :root blocks, an at-rule with a   *)
(* nested block, and a block without a selector.                           *)
(***************************************************************************)

\* the most blocks of a stylesheet text
MaxBlocks == 3

Decl(name, value, term) == [var |-> FALSE, name |-> name, value |-> value, term |-> term]
VarDecl(name, value, term) == [var |-> TRUE, name |-> name, value |-> value, term |-> term]
Simple(kind, text) == [kind |-> kind, text |-> text]
RuleBlock(selector, decls, sep) ==
    [kind |-> "rule", selector |-> selector, decls |-> decls, sep |-> sep, body |-> <<>>]
RootBlock(decls, sep) ==
    [kind |-> "root", selector |-> <<>>, decls |-> decls, sep |-> sep, body |-> <<>>]
AtBlock(prelude, body) ==
    [kind |-> "at", selector |-> <<Simple("at", prelude)>>, decls |-> <<>>,
     sep |-> <<" ">>, body |-> body]
AtStatement(prelude) ==
    [kind |-> "statement", selector |-> <<Simple("at", prelude)>>, decls |-> <<>>,
     sep |-> <<>>, body |-> <<>>]
\* a piece of stylesheet text taken as it is written
Literal(kind, text) ==
    [kind |-> kind, selector |-> <<>>, decls |-> <<>>, sep |-> <<>>, body |-> text]
BareBlock == [kind |-> "bare", selector |-> <<>>, decls |-> <<>>, sep |-> <<>>, body |-> <<>>]

TssBlocks ==
    {\* Window { color: white; }
     RuleBlock(<<Simple("tag", Window)>>, <<Decl(Color, <<"w","h","i","t","e">>, TRUE)>>, <<" ">>),
     \* .my-class{color:red}
     RuleBlock(<<Simple("class", <<".","m","y","-","c","l","a","s","s">>)>>, <<Decl(Color, <<"r","e","d">>, FALSE)>>, <<>>),
     \* #my-id { color: blue (newline) width: 5; }
     RuleBlock(<<Simple("id", <<"#","m","y","-","i","d">>)>>,
               <<Decl(Color, <<"b","l","u","e">>, FALSE), Decl(Width, <<"5">>, TRUE)>>, <<"\n">>),
     \* Window Button:hover { }
     RuleBlock(<<Simple("tag", Window), Simple("tag", <<"B","u","t","t","o","n",":","h","o","v","e","r">>)>>, <<>>, <<" ">>),
     \* #a  .b  Text  {  width:  5;  color:  red;  }
     RuleBlock(<<Simple("id", <<"#","a">>), Simple("class", <<".","b">>), Simple("tag", Text)>>,
               <<Decl(Width, <<"5">>, TRUE), Decl(Color, <<"r","e","d">>, TRUE)>>, <<" ", " ">>),
     \* :root { --c: #4CAF50; --c: red; color: white; --d: 1; }
     RootBlock(<<VarDecl(<<"c">>, <<"#","4","C","A","F","5","0">>, TRUE), VarDecl(<<"c">>, <<"r","e","d">>, TRUE),
                 Decl(Color, <<"w","h","i","t","e">>, TRUE), VarDecl(<<"d">>, <<"1">>, TRUE)>>, <<" ">>),
     \* :root{--d:2;color:white}
     RootBlock(<<VarDecl(<<"d">>, <<"2">>, TRUE), Decl(Color, <<"w","h","i","t","e">>, FALSE)>>, <<>>),
     \* :root { --e: 1 }
     RootBlock(<<VarDecl(<<"e">>, <<"1">>, FALSE)>>, <<" ">>),
     \* @media screen { Text { color: red } }
     AtBlock(<<"@","m","e","d","i","a"," ","s","c","r","e","e","n">>, <<" ","T","e","x","t"," ","{"," ","c","o","l","o","r",":"," ","r","e","d"," ","}">>),
     \* @import "x";
     AtStatement(<<"@","i","m","p","o","r","t"," ","\"","x","\"">>),
     \* {}
     BareBlock}

TssDocs == UNION {[1..n -> TssBlocks] : n \in 1..MaxBlocks}

DeclText(d, sep) ==
    (IF d.var THEN <<"-", "-">> ELSE <<>>) \o d.name \o <<":">> \o sep \o d.value
        \o (IF d.term THEN <<";">> ELSE <<>>)

BlockText(b) ==
    LET between == IF b.sep = <<>> THEN <<" ">> ELSE b.sep
        head == IF b.kind = "root" THEN <<":", "r", "o", "o", "t">>
                ELSE Join([i \in 1..Len(b.selector) |-> b.selector[i].text], between)
        decls == Concat([i \in 1..Len(b.decls) |-> b.sep \o DeclText(b.decls[i], b.sep)])
    IN  IF b.kind \in {"comment", "literal"} THEN b.body
        ELSE IF b.kind = "statement" THEN head \o <<";">>
        ELSE head \o b.sep \o <<"{">> \o decls \o b.body \o b.sep \o <<"}">>

TssText(doc) == Join([i \in 1..Len(doc) |-> BlockText(doc[i])], <<"\n">>)

InitTSS ==
    /\ tssDoc \in TssDocs
    /\ tssResult = [called |-> FALSE]
    /\ state = EmptyMap /\ frameNumber = 0 /\ eventHandlers = EmptyMap
    /\ frame = NoFrame /\ returned = NoReference
    /\ xmlDoc = <<>> /\ xmlResult = [called |-> FALSE]
    /\ jsxTree = NoElement /\ jsxResult = [called |-> FALSE]

ParseTSS ==
    /\ ~tssResult.called
    /\ tssResult' = [called |-> TRUE, result |-> parseTSS(TssText(tssDoc))]
    /\ UNCHANGED <<tssDoc, rendererVars, xmlVars, jsxVars>>

NextTSS == ParseTSS

SpecTSS == InitTSS /\ [][NextTSS]_vars

\* the blocks of a kind, in the text's order
BlocksOf(doc, kind) == SelectSeq(doc, LAMBDA b : b.kind = kind)

\* block i is an ordinary rule with a declaration that lacks its ; and the
\* parse loop gets as far as block i
UnterminatedAt(doc, i) ==
    /\ doc[i].kind = "rule"
    /\ \E k \in 1..Len(doc[i].decls) : ~doc[i].decls[k].term
    /\ \A j \in 1..(i - 1) : doc[j].kind # "bare"

CountKind(b, kind) ==
    Cardinality({i \in 1..Len(b.selector) : b.selector[i].kind = kind})

ExpectedSpecificity(b) ==
    100 * CountKind(b, "id") + 10 * CountKind(b, "class") + CountKind(b, "tag")

ExpectedSelector(b) ==
    Join([i \in 1..Len(b.selector) |-> b.selector[i].text],
         IF b.sep = <<>> THEN <<" ">> ELSE b.sep)

\* C7: every rule parseTSS returns carries the specificity 100 * (number of #id
\* simple selectors) + 10 * (number of .class simple selectors) + (number of
\* tag-name simple selectors) of its whitespace-separated selector.
SpecificityIsWeightedCount ==
    (tssResult.called /\ tssResult.result.ok) =>
        LET rules == tssResult.result.val.rules
            blocks == BlocksOf(tssDoc, "rule")
        IN  /\ Len(rules) = Len(blocks)
            /\ \A i \in 1..Len(rules) :
                   /\ rules[i].selector = ExpectedSelector(blocks[i])
                   /\ rules[i].specificity = ExpectedSpecificity(blocks[i])

\* rules with specificity 111 (#a .b Text) and 2 (Window Button:hover) were
\* returned
SpecificityParsed ==
    /\ tssResult.called /\ tssResult.result.ok
    /\ \E i, j \in 1..Len(tssResult.result.val.rules) :
           /\ tssResult.result.val.rules[i].specificity = 111
           /\ tssResult.result.val.rules[j].specificity = 2

\* the --name declarations of the :root blocks, in the text's order
RootVarDecls(doc) ==
    LET roots == BlocksOf(doc, "root")
    IN  Concat([i \in 1..Len(roots) |-> SelectSeq(roots[i].decls, LAMBDA d : d.var)])

\* C8: after parseTSS succeeds the variables hold one entry for each name
\* declared by a --name declaration of a :root block, keyed by the name without
\* the --, with the last value declared for it; other declarations of :root add
\* no variable, and a :root block adds no rule.
RootVariablesCollected ==
    (tssResult.called /\ tssResult.result.ok) =>
        LET variables == tssResult.result.val.variables
            decls == RootVarDecls(tssDoc)
        IN  /\ {variables[i].name : i \in 1..Len(variables)}
                   = {decls[k].name : k \in 1..Len(decls)}
            /\ \A i, j \in 1..Len(variables) :
                   variables[i].name = variables[j].name => i = j
            /\ \A i \in 1..Len(variables) : \A k \in 1..Len(decls) :
                   (/\ decls[k].name = variables[i].name
                    /\ \A l \in (k + 1)..Len(decls) : decls[l].name # decls[k].name)
                       => variables[i].value = decls[k].value
            /\ Len(tssResult.result.val.rules) = Len(BlocksOf(tssDoc, "rule"))

\* two :root blocks declaring c twice and d in both, with a declaration that
\* is no variable, and a rule, were parsed
RootVariablesParsed ==
    /\ tssResult.called /\ tssResult.result.ok
    /\ Len(tssDoc) = 3
    /\ tssDoc[1].kind = "root" /\ Len(tssDoc[1].decls) = 4
    /\ tssDoc[2].kind = "rule"
    /\ tssDoc[3].kind = "root" /\ Len(tssDoc[3].decls) = 2
    /\ tssResult.result.val.variables =
           <<[name |-> <<"c">>, value |-> <<"r","e","d">>],
             [name |-> <<"d">>, value |-> <<"2">>]>>
    /\ Len(tssResult.result.val.rules) = 1

\* the stylesheet text without its at-rules
WithoutAtRules(doc) == SelectSeq(doc, LAMBDA b : b.kind \notin {"at", "statement"})

\* C12: for a stylesheet text that contains at-rules (@...; or @... { ... }
\* with balanced, possibly nested braces) parseTSS returns the variables and
\* rules it returns for the text with the at-rules removed, and fails when
\* that text fails.
AtRulesSkipped ==
    (tssResult.called /\ WithoutAtRules(tssDoc) # tssDoc) =>
        LET without == parseTSS(TssText(WithoutAtRules(tssDoc)))
        IN  /\ tssResult.result.ok = without.ok
            /\ tssResult.result.ok => tssResult.result.val = without.val

\* @import "x"; then @media screen { Text { color: red } } then a Window rule
\* were parsed: the only rule is Window's
AtRulesParsed ==
    /\ tssResult.called /\ tssResult.result.ok
    /\ Len(tssDoc) = 3
    /\ tssDoc[1].kind = "statement" /\ tssDoc[2].kind = "at" /\ tssDoc[3].kind = "rule"
    /\ tssDoc[2].body # <<>>
    /\ tssResult.result.val.variables = <<>>
    /\ Len(tssResult.result.val.rules) = 1
    /\ tssResult.result.val.rules[1].selector = Window

\* C21: parseTSS terminates on every stylesheet text: every call returns a
\* stylesheet or raises a TSSParseError, also when a { has no selector before
\* it.
ParseTSSTerminates ==
    tssResult.called =>
        \/ tssResult.result.ok
        \/ tssResult.result.err.name = "TSSParseError"

\* what the code does instead: the call returns or raises unless the top-level
\* loop reaches a { with no selector before it, where it stops making progress
ParseTSSTerminatesUnlessBareBlock ==
    tssResult.called =>
        \/ tssResult.result.ok
        \/ tssResult.result.err.name = "TSSParseError"
        \/ /\ tssResult.result.err.name = "(no return)"
           /\ \E i \in 1..Len(tssDoc) : tssDoc[i].kind = "bare"
           /\ TssAt(TssText(tssDoc), tssResult.result.p, "{")

\* the number of newline characters among the first n characters of s
NewlinesBefore(s, n) == Cardinality({i \in 1..n : s[i] = "\n"})

\* C24: the cursor's line counter is 1 plus the number of newline characters
\* of the text before the cursor position, so that the line of a TSSParseError
\* is the line of the text at which the error was detected, also when a
\* selector or an at-rule header spans several lines.
LineCountsNewlines ==
    tssResult.called =>
        LET r == tssResult.result
            line == 1 + NewlinesBefore(TssText(tssDoc), r.p.pos)
        IN  /\ r.p.line = line
            /\ ~r.ok => r.err.line = line

\* what the code does instead: the line counter never runs ahead of the text,
\* and an error carries the counter's value
LineNeverAhead ==
    tssResult.called =>
        LET r == tssResult.result
        IN  /\ r.p.line <= 1 + NewlinesBefore(TssText(tssDoc), r.p.pos)
            /\ ~r.ok => r.err.line = r.p.line

(***************************************************************************)
(* parseTSS applied to the README's stylesheet example ("Styling with      *)
(* TSS"): five blocks, each preceded by a comment.  A stylesheet text is   *)
(* the example with any of its blocks and comments left out.               *)
(***************************************************************************)

ReadmeExample ==
    <<Literal("comment", <<"/","*"," ","C","S","S"," ","v","a","r","i","a","b","l","e","s"," ","*","/">>),
      Literal("literal", <<":","r","o","o","t"," ","{","\n"," "," "," "," ","-","-","p","r","i","m","a","r","y","-","c","o","l","o","r",":"," ","#","4","C","A","F","5","0",";","\n"," "," "," "," ","-","-","t","e","x","t","-","c","o","l","o","r",":"," ","w","h","i","t","e",";","\n","}","\n">>),
      Literal("comment", <<"/","*"," ","S","t","y","l","e"," ","b","y"," ","t","a","g"," ","n","a","m","e"," ","*","/">>),
      Literal("literal", <<"B","u","t","t","o","n"," ","{","\n"," "," "," "," ","b","a","c","k","g","r","o","u","n","d","-","c","o","l","o","r",":"," ","v","a","r","(","-","-","p","r","i","m","a","r","y","-","c","o","l","o","r",")",";","\n"," "," "," "," ","c","o","l","o","r",":"," ","w","h","i","t","e",";","\n","}","\n">>),
      Literal("comment", <<"/","*"," ","S","t","y","l","e"," ","b","y"," ","c","l","a","s","s"," ","*","/">>),
      Literal("literal", <<".","m","y","-","b","u","t","t","o","n"," ","{","\n"," "," "," "," ","b","a","c","k","g","r","o","u","n","d","-","c","o","l","o","r",":"," ","r","e","d",";","\n","}","\n">>),
      Literal("comment", <<"/","*"," ","S","t","y","l","e"," ","b","y"," ","I","D"," ","*","/">>),
      Literal("literal", <<"#","s","p","e","c","i","a","l","-","b","u","t","t","o","n"," ","{","\n"," "," "," "," ","b","a","c","k","g","r","o","u","n","d","-","c","o","l","o","r",":"," ","b","l","u","e",";","\n","}","\n">>),
      Literal("comment", <<"/","*"," ","N","e","s","t","e","d"," ","s","e","l","e","c","t","o","r","s"," ","*","/">>),
      Literal("literal", <<"W","i","n","d","o","w"," ","B","u","t","t","o","n"," ","{","\n"," "," "," "," ","b","a","c","k","g","r","o","u","n","d","-","c","o","l","o","r",":"," ","v","a","r","(","-","-","p","r","i","m","a","r","y","-","c","o","l","o","r",")",";","\n","}","\n">>)>>

\* the items of the example whose index is in keep, in the example's order
RECURSIVE ReadmeKeep(_, _)
ReadmeKeep(keep, i) ==
    IF i > Len(ReadmeExample) THEN <<>>
    ELSE (IF i \in keep THEN <<ReadmeExample[i]>> ELSE <<>>) \o ReadmeKeep(keep, i + 1)

ReadmeDocs == {ReadmeKeep(keep, 1) : keep \in SUBSET (1..Len(ReadmeExample))}

InitReadme ==
    /\ tssDoc \in ReadmeDocs
    /\ tssResult = [called |-> FALSE]
    /\ state = EmptyMap /\ frameNumber = 0 /\ eventHandlers = EmptyMap
    /\ frame = NoFrame /\ returned = NoReference
    /\ xmlDoc = <<>> /\ xmlResult = [called |-> FALSE]
    /\ jsxTree = NoElement /\ jsxResult = [called |-> FALSE]

SpecReadme == InitReadme /\ [][NextTSS]_vars

\* C13: a stylesheet text written as in the README example, with /* ... */
\* comments before the :root block and before rules, parses to the variables
\* and rules (selector, properties, specificity) of the same text without the
\* comments; the whole example yields the variables primary-color and
\* text-color and rules with the selectors Button, .my-button, #special-button
\* and Window Button.
CommentsIgnored ==
    tssResult.called =>
        LET without == parseTSS(TssText(BlocksOf(tssDoc, "literal")))
        IN  /\ tssResult.result.ok = without.ok
            /\ tssResult.result.ok => tssResult.result.val = without.val
            /\ tssDoc = ReadmeExample =>
                  /\ tssResult.result.ok
                  /\ [i \in 1..Len(tssResult.result.val.variables) |->
                         tssResult.result.val.variables[i].name]
                       = <<<<"p","r","i","m","a","r","y","-","c","o","l","o","r">>, <<"t","e","x","t","-","c","o","l","o","r">>>>
                  /\ [i \in 1..Len(tssResult.result.val.rules) |->
                         tssResult.result.val.rules[i].selector]
                       = <<<<"B","u","t","t","o","n">>, <<".","m","y","-","b","u","t","t","o","n">>, <<"#","s","p","e","c","i","a","l","-","b","u","t","t","o","n">>, <<"W","i","n","d","o","w"," ","B","u","t","t","o","n">>>>

\* the example without its comments parses to these variables and rules
ReadmeWithoutCommentsParsed ==
    /\ tssResult.called /\ tssResult.result.ok
    /\ tssDoc = BlocksOf(ReadmeExample, "literal")
    /\ [i \in 1..Len(tssResult.result.val.variables) |->
           tssResult.result.val.variables[i].name]
         = <<<<"p","r","i","m","a","r","y","-","c","o","l","o","r">>, <<"t","e","x","t","-","c","o","l","o","r">>>>
    /\ [i \in 1..Len(tssResult.result.val.rules) |->
           tssResult.result.val.rules[i].selector]
         = <<<<"B","u","t","t","o","n">>, <<".","m","y","-","b","u","t","t","o","n">>, <<"#","s","p","e","c","i","a","l","-","b","u","t","t","o","n">>, <<"W","i","n","d","o","w"," ","B","u","t","t","o","n">>>>

(***************************************************************************)
(* jsxToTXML followed by parseTXML, applied to trees built with jsx/jsxs.  *)
(***************************************************************************)

\* the most children of the root of a built tree
MaxJsxChildren == 2

JsxAttrValues == {<<"x">>, <<"a", " ", "b">>, <<"a", "&", "b">>}

\* the props of a call, children aside: none, a title, or a key alone
JsxEntries ==
    {<<>>, <<[name |-> <<"k","e","y">>, value |-> <<"k">>]>>}
        \cup {<<[name |-> <<"t","i","t","l","e">>, value |-> v]>> : v \in JsxAttrValues}

JsxLeaves ==
    {jsx(tag, [entries |-> e, children |-> c], Undefined) :
        tag \in {Text, Button}, e \in JsxEntries,
        c \in {Undefined, TextChild(<<"h","i">>)}}

JsxChildLists == UNION {[1..n -> JsxLeaves \cup {Null}] : n \in 0..MaxJsxChildren}

JsxTrees ==
    {jsxs(App, [entries |-> e, children |-> [array |-> kids]], Undefined) :
        e \in JsxEntries, kids \in JsxChildLists}
        \cup {jsx(App, Null, kid) : kid \in JsxLeaves}

InitJSX ==
    /\ jsxTree \in JsxTrees
    /\ jsxResult = [called |-> FALSE]
    /\ state = EmptyMap /\ frameNumber = 0 /\ eventHandlers = EmptyMap
    /\ frame = NoFrame /\ returned = NoReference
    /\ xmlDoc = <<>> /\ xmlResult = [called |-> FALSE]
    /\ tssDoc = <<>> /\ tssResult = [called |-> FALSE]

RoundTrip ==
    /\ ~jsxResult.called
    /\ jsxResult' = [called |-> TRUE, txml |-> jsxToTXML(jsxTree),
                     result |-> parseTXML(jsxToTXML(jsxTree))]
    /\ UNCHANGED <<jsxTree, rendererVars, xmlVars, tssVars>>

NextJSX == RoundTrip

SpecJSX == InitJSX /\ [][NextJSX]_vars

\* C10: for a tree built with jsx/jsxs, parseTXML(jsxToTXML(tree)) returns a
\* tree equal to the original: same tags, same attribute names and values, same
\* children in the same order.
RoundTripIsIdentity ==
    jsxResult.called =>
        /\ jsxResult.result.ok
        /\ jsxResult.result.val = jsxTree

\* a tree with attributes and children came back from the round trip unchanged
RoundTripUnchanged ==
    /\ jsxResult.called
    /\ jsxResult.result.ok
    /\ jsxResult.result.val = jsxTree
    /\ jsxTree.attributes # <<>>
    /\ Len(jsxTree.children) = 2


CallsOf(f, fn) == {k \in 1..Len(f.calls) : f.calls[k].fn = fn}

\* the End call that closes the Begin call k of frame f: a later End issued
\* for the same Window element
EndsOf(f, k) ==
    {j \in CallsOf(f, "End") : j > k /\ f.calls[j].at = f.calls[k].at}

\* C22: at the end of every render call, also one in which an event handler
\* threw during the walk, every Begin issued for a Window has been followed by
\* its End (as many End calls as Begin calls in the frame), also when Begin
\* returned false.
BeginMatchedByEnd ==
    frame.rendered =>
        /\ \A k \in CallsOf(frame, "Begin") : EndsOf(frame, k) # {}
        /\ Cardinality(CallsOf(frame, "Begin"))
               = Cardinality(CallsOf(frame, "End"))

\* what the code does instead: Begin is followed by End, whatever Begin
\* returned, in the frames whose walk was not cut short by an exception
BeginMatchedByEndUnlessThrown ==
    (frame.rendered /\ frame.caught = "") =>
        /\ \A k \in CallsOf(frame, "Begin") : EndsOf(frame, k) # {}
        /\ Cardinality(CallsOf(frame, "Begin"))
               = Cardinality(CallsOf(frame, "End"))

\* a frame in which Begin returned false and End was called all the same
EndAfterClosedBegin ==
    /\ frame.rendered
    /\ \E k \in CallsOf(frame, "Begin") :
           AnswerOf(frame, k) = 0 /\ EndsOf(frame, k) # {}

(***************************************************************************)
(* parseTXML applied to markup whose tag names and attribute names may be  *)
(* empty                                                                   *)
(***************************************************************************)
MaxNamePieces == 4

AttrP(name, attr, value) ==
    [kind |-> "empty", name |-> name,
     text |-> LtAttr(name, attr, value, <<"/", ">">>)]

\* <App> </App> <> </> <Text id="x"/> <Text ="x"/> <Text.x/> hi
NamePieces ==
    {OpenP(App), CloseP(App), OpenP(<<>>), CloseP(<<>>),
     AttrP(Text, <<"i","d">>, <<"x">>), AttrP(Text, <<>>, <<"x">>),
     EmptyP(Text \o <<".", "x">>), TextP(<<"h","i">>)}

NameDocs == UNION {[1..n -> NamePieces] : n \in 1..MaxNamePieces}

InitNames ==
    /\ xmlDoc \in NameDocs
    /\ xmlResult = [called |-> FALSE]
    /\ state = EmptyMap /\ frameNumber = 0 /\ eventHandlers = EmptyMap
    /\ frame = NoFrame /\ returned = NoReference
    /\ tssDoc = <<>> /\ tssResult = [called |-> FALSE]
    /\ jsxTree = NoElement /\ jsxResult = [called |-> FALSE]

SpecNames == InitNames /\ [][NextTXML]_vars

IsName(s) == s # <<>> /\ \A i \in 1..Len(s) : s[i] \in NameChars

WellNamed(element) ==
    /\ IsName(element.tag)
    /\ \A i \in 1..Len(element.attributes) : element.attributes[i].name # <<>>

HasEmptyName(doc) ==
    \E i \in 1..Len(doc) :
        \/ doc[i].kind \in {"open", "close"} /\ doc[i].name = <<>>
        \/ doc[i] = AttrP(Text, <<>>, <<"x">>)

\* C23: in every tree parseTXML returns, every element's tag is a non-empty
\* string of characters from [A-Za-z0-9_-] and every attribute name is
\* non-empty; markup with an empty name, such as <> or ="x", is rejected with
\* TXMLParseError.
NamesNonEmpty ==
    xmlResult.called =>
        /\ xmlResult.result.ok =>
               \A at \in Positions(xmlResult.result.val, <<>>) :
                   WellNamed(ElementAt(xmlResult.result.val, at))
        /\ HasEmptyName(xmlDoc) =>
               /\ ~xmlResult.result.ok
               /\ xmlResult.result.err.name = "TXMLParseError"

\* what the code does instead: the tags and attribute names of a returned
\* tree hold characters from [A-Za-z0-9_-] only, and may be empty
NamesOfNameCharacters ==
    (xmlResult.called /\ xmlResult.result.ok) =>
        \A at \in Positions(xmlResult.result.val, <<>>) :
            LET element == ElementAt(xmlResult.result.val, at)
            IN  /\ \A i \in 1..Len(element.tag) : element.tag[i] \in NameChars
                /\ \A i \in 1..Len(element.attributes) :
                       \A j \in 1..Len(element.attributes[i].name) :
                           element.attributes[i].name[j] \in NameChars

\* a name cut short by another character is rejected
DottedNameRejected ==
    /\ xmlResult.called
    /\ xmlDoc = <<EmptyP(Text \o <<".", "x">>)>>
    /\ ~xmlResult.result.ok
    /\ xmlResult.result.err.name = "TXMLParseError"
=============================================================================
